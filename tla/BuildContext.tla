---------------------------- MODULE BuildContext ----------------------------
(***************************************************************************)
(* What `podup build` sends as a build context                             *)
(* (engine/images/context, engine/images/build/{context,request}): the     *)
(* ignore patterns and their two glob matchers, the pruned walk over the   *)
(* context, the files podup adds to it, and the plan made from a service's *)
(* build section.                                                          *)
(*                                                                         *)
(* A text that a pattern is matched against is a sequence of one-character *)
(* strings; a context is a sequence of nodes [path, k] in the order of a   *)
(* sorted walk.                                                            *)
(***************************************************************************)
EXTENDS Naturals, Sequences, SequencesExt, FiniteSetsExt

CONSTANT Alphabet   \* the characters, in the order of their codes

-----------------------------------------------------------------------------
(* Texts *)

Split(s) ==
    FoldLeft(LAMBDA parts, c : IF c = "/" THEN Append(parts, <<>>)
                               ELSE Append(Front(parts), Append(Last(parts), c)),
             <<<<>>>>, s)

Join(parts) ==
    FoldLeft(LAMBDA s, p : IF s = <<>> THEN p ELSE s \o <<"/">> \o p, <<>>, parts)

Has(s, chars) == \E i \in DOMAIN s : s[i] \in chars
Wild == {"*", "?", "[", "\\"}
Stars(s) == \E i \in 1 .. Len(s) - 1 : s[i] = "*" /\ s[i + 1] = "*"

(* The directories above a path, the path itself left out.                 *)
AncestorDirs(path) == {SubSeq(path, 1, i - 1) : i \in {j \in DOMAIN path : path[j] = "/"}}

Beneath(path, dir) == IsPrefix(dir \o <<"/">>, path)

-----------------------------------------------------------------------------
(* The matcher for patterns that escape or name a class (glob.rs).         *)

Code(c) == CHOOSE i \in DOMAIN Alphabet : Alphabet[i] = c
NoMatch == "invalid"

RECURSIVE Class(_, _, _, _), TokensFrom(_, _, _)

CharAt(p, i) == IF i <= Len(p) THEN p[i] ELSE "end"
Escaped(p, i) == IF CharAt(p, i) = "\\" THEN i + 1 ELSE i

(* The ranges of a class up to its bracket: a character, or a range whose  *)
(* ends are in order; an empty class and an open one are refused.          *)
Class(p, i, negated, ranges) ==
    IF CharAt(p, i) = "]"
    THEN [ok |-> ranges # {}, next |-> i + 1,
          token |-> [t |-> "class", negated |-> negated, ranges |-> ranges]]
    ELSE LET lo == Escaped(p, i)
             ranged == CharAt(p, lo + 1) = "-"
             hi == IF ranged THEN Escaped(p, lo + 2) ELSE lo
         IN  IF \/ "end" \in {CharAt(p, lo), CharAt(p, hi)}
                \/ (ranged /\ CharAt(p, lo + 2) = "]")
                \/ Code(CharAt(p, hi)) < Code(CharAt(p, lo))
             THEN [ok |-> FALSE]
             ELSE Class(p, hi + 1, negated, ranges \cup {<<Code(p[lo]), Code(p[hi])>>})

Token(t) == [t |-> t]
Literal(c) == [t |-> "literal", c |-> c]
Double(p, i) == CharAt(p, i) = "*" /\ CharAt(p, i + 1) = "*"

(* The class whose bracket is at i, its caret read.                        *)
ClassAt(p, i) ==
    IF CharAt(p, i + 1) = "^" THEN Class(p, i + 2, TRUE, {}) ELSE Class(p, i + 1, FALSE, {})

TokensFrom(p, i, read) ==
    CASE CharAt(p, i) = "end" -> read
      [] CharAt(p, i) = "\\" /\ i = Len(p) -> NoMatch
      [] CharAt(p, i) = "\\" /\ i < Len(p) ->
           TokensFrom(p, i + 2, Append(read, Literal(p[i + 1])))
      [] CharAt(p, i) = "*" ->
           IF Double(p, i) THEN TokensFrom(p, i + 2, Append(read, Token("doublestar")))
           ELSE TokensFrom(p, i + 1, Append(read, Token("star")))
      [] CharAt(p, i) = "[" ->
           LET class == ClassAt(p, i)
           IN  IF class.ok THEN TokensFrom(p, class.next, Append(read, class.token)) ELSE NoMatch
      [] OTHER ->
           TokensFrom(p, i + 1,
                      Append(read, IF p[i] = "?" THEN Token("any") ELSE Literal(p[i])))

Tokens(p) == TokensFrom(p, 1, <<>>)

InClass(token, c) ==
    /\ c # "/"
    /\ (\E r \in token.ranges : r[1] <= Code(c) /\ Code(c) <= r[2]) # token.negated

(* close: from every position entered, or stayed at, on past the stars; a  *)
(* `**/` also stands for no directory, where it is entered.                *)
Close(tokens, entered, stay) ==
    FoldLeft(LAMBDA set, i :
        IF i \notin set \cup stay THEN set
        ELSE CASE tokens[i].t = "star" -> set \cup {i, i + 1}
               [] tokens[i].t = "doublestar" ->
                    set \cup {i, i + 1}
                        \cup (IF i \in set /\ i < Len(tokens) /\ tokens[i + 1] = Literal("/")
                              THEN {i + 2} ELSE {})
               [] OTHER -> set \cup {i},
        entered, [i \in DOMAIN tokens |-> i])

Takes(token, c) ==
    CASE token.t = "any" -> c # "/"
      [] token.t = "literal" -> token.c = c
      [] token.t = "class" -> InClass(token, c)
      [] OTHER -> FALSE

Stays(token, c) == token.t = "doublestar" \/ (token.t = "star" /\ c # "/")

Advance(tokens, now, c) ==
    Close(tokens, {i + 1 : i \in {j \in now \cap DOMAIN tokens : Takes(tokens[j], c)}},
                  {j \in now \cap DOMAIN tokens : Stays(tokens[j], c)})

(* matches: the pattern as a set of positions advanced by each character.  *)
RunTokens(tokens, s) ==
    /\ tokens # NoMatch
    /\ Len(tokens) + 1 \in FoldLeft(LAMBDA now, c : Advance(tokens, now, c),
                                    Close(tokens, {1}, {}), s)

-----------------------------------------------------------------------------
(* The matcher for the other patterns (ignore_patterns.rs), on the text of *)
(* the pattern itself.                                                     *)

CloseText(p, entered, stay) ==
    FoldLeft(LAMBDA set, i :
        IF i \notin set \cup stay THEN set
        ELSE CASE Double(p, i) ->
                    set \cup {i, i + 2}
                        \cup (IF i \in set /\ CharAt(p, i + 2) = "/" THEN {i + 3} ELSE {})
               [] p[i] = "*" /\ ~Double(p, i) -> set \cup {i, i + 1}
               [] OTHER -> set \cup {i},
        entered, [i \in DOMAIN p |-> i])

AdvanceText(p, now, c) ==
    CloseText(p,
        {i + 1 : i \in {j \in now \cap DOMAIN p : IF p[j] = "?" THEN c # "/" ELSE p[j] # "*" /\ p[j] = c}},
        {j \in now \cap DOMAIN p : Double(p, j) \/ (p[j] = "*" /\ c # "/")})

RunText(p, s) ==
    Len(p) + 1 \in FoldLeft(LAMBDA now, c : AdvanceText(p, now, c), CloseText(p, {1}, {}), s)

(* glob_rec                                                                *)
GlobRec(p, s) == IF Has(p, {"[", "\\"}) THEN RunTokens(Tokens(p), s) ELSE RunText(p, s)

(* A pattern of one segment is matched against the last name of a path.    *)
GlobMatch(p, path) ==
    GlobRec(p, IF Has(p, {"/"}) \/ Stars(p) THEN path ELSE Last(Split(path)))

-----------------------------------------------------------------------------
(* Ignore patterns *)

(* normalize: no empty or `.` segments; `..` takes back the name before it *)
(* and is dropped at the front of a pattern that starts with a slash.      *)
Normalize(p) ==
    LET absolute == p # <<>> /\ Head(p) = "/"
    IN  Join(FoldLeft(LAMBDA parts, part :
            CASE part = <<>> \/ part = <<".">> -> parts
              [] part = <<".", ".">> /\ parts # <<>> /\ Last(parts) # part -> Front(parts)
              [] part = <<".", ".">> /\ (parts = <<>> \/ Last(parts) = part) ->
                    IF absolute THEN parts ELSE Append(parts, part)
              [] OTHER -> Append(parts, part),
            <<>>, Split(p)))

Negated(pattern) == pattern # <<>> /\ Head(pattern) = "!"

(* pattern_matches: the path itself, or a directory above it.              *)
PatternMatches(pattern, path) ==
    \E p \in {Normalize(pattern)} :
      /\ p # <<>>
      /\ \E candidate \in {path} \cup AncestorDirs(path) :
           IF Has(p, Wild) THEN GlobMatch(p, candidate) ELSE candidate = p

(* is_ignored: the last pattern that matches decides.                      *)
IsIgnored(path, patterns) ==
    FoldLeft(LAMBDA last, pattern :
        CASE Negated(pattern) -> last /\ ~PatternMatches(Tail(pattern), path)
          [] ~Negated(pattern) -> last \/ PatternMatches(pattern, path),
        FALSE, patterns)

(* A negation that could match something below a directory.                *)
NegationCouldReach(dir, patterns) ==
    \E i \in DOMAIN patterns :
      /\ Negated(patterns[i])
      /\ LET p == Normalize(Tail(patterns[i]))
         IN  p # <<>> /\ (Has(p, Wild) \/ p = dir \/ Beneath(p, dir) \/ Beneath(dir, p))

(* try_read_patterns: the first of the two files that can be read; one     *)
(* that is there and cannot be read stops the build.                       *)
ContainerIgnore == <<".", "c">>
DockerIgnore == <<".", "i">>
NoIgnoreFile == [state |-> "absent", patterns |-> <<>>]
IgnoreFile(ctx) ==
    CASE ctx.containerignore.state # "absent" ->
           [name |-> ContainerIgnore, file |-> ctx.containerignore]
      [] ctx.containerignore.state = "absent" /\ ctx.dockerignore.state # "absent" ->
           [name |-> DockerIgnore, file |-> ctx.dockerignore]
      [] OTHER -> [name |-> ContainerIgnore, file |-> NoIgnoreFile]

-----------------------------------------------------------------------------
(* The walk over the context *)

Entry(path, from) == [path |-> path, from |-> from]

(* Pruned without looking at forced paths (for a mutant).                  *)
SkipIgnored(dir, patterns, skip, force) ==
    \/ dir \in skip
    \/ IsIgnored(dir, patterns) /\ ~NegationCouldReach(dir, patterns)

(* skip_dir: what nothing below can be shipped from is not walked.         *)
SkipDir(dir, patterns, skip, force) ==
    \/ dir \in skip
    \/ /\ dir \notin UNION {AncestorDirs(p) : p \in force}
       /\ IsIgnored(dir, patterns)
       /\ ~NegationCouldReach(dir, patterns)

IncludeEntry(path, patterns, skip, force) ==
    path \notin skip /\ (path \in force \/ ~IsIgnored(path, patterns))

(* The nodes the walk meets and does not leave out.                        *)
Met(tree, pruned, patterns, skip, force) ==
    SelectSeq(tree, LAMBDA n : AncestorDirs(n.path) \cap pruned = {}
                               /\ IncludeEntry(n.path, patterns, skip, force))

Pruned(tree, patterns, skip, force) ==
    {tree[i].path : i \in {j \in DOMAIN tree :
        tree[j].k = "dir" /\ SkipDir(tree[j].path, patterns, skip, force)}}

HostEntries(met) == [i \in DOMAIN met |-> Entry(met[i].path, "host")]

(* append_context: a special file stops it.                                *)
AppendContext(tree, patterns, skip, force) ==
    Met(tree, Pruned(tree, patterns, skip, force), patterns, skip, force)

-----------------------------------------------------------------------------
(* What podup adds to it *)

InlineName == <<".", "d">>
OutsideName == <<".", "o">>
SecretName(s) == <<".", "s">> \o s.name

(* The ignore file that hides the added files from the image.              *)
SynthesizedIgnoreFile(ignore, names) == ignore.file.patterns \o names

Broken == [failed |-> TRUE, entries |-> <<>>, ignores |-> <<>>]

(* The whole archive: an inline Dockerfile, what the walk met, and, when   *)
(* podup adds any file, an ignore file and the other files it adds.        *)
Assemble(met, ignore, added, extra) ==
    [failed  |-> \E i \in DOMAIN met : met[i].k = "special",
     entries |-> [i \in 1 .. Len(added) - Len(extra) |-> Entry(added[i], "added")]
                 \o HostEntries(met)
                 \o (IF added = <<>> THEN <<>> ELSE <<Entry(ignore.name, "ignore")>>)
                 \o [i \in DOMAIN extra |-> Entry(extra[i], "added")],
     ignores |-> SynthesizedIgnoreFile(ignore, added)]

(* stream_build_context and its form for an inline Dockerfile: the files   *)
(* podup adds replace the context's own of the same name and come with an  *)
(* ignore file that names them; the Dockerfile is shipped though ignored,  *)
(* unless it is one of them, and is known by its name as it is spelled.    *)
StreamBuildContext(ctx, ignore, dockerfile, added, extra) ==
    IF ignore.file.state = "unreadable" THEN Broken
    ELSE Assemble(AppendContext(ctx.tree, ignore.file.patterns,
                      IF added = <<>> THEN {} ELSE ToSet(added) \cup {ignore.name},
                      {dockerfile} \ ToSet(added)),
                  ignore, added, extra)

ContextArchive(ctx, inline, dockerfile, extra) ==
    StreamBuildContext(ctx, IgnoreFile(ctx), dockerfile,
                       (IF inline THEN <<InlineName>> ELSE <<>>) \o extra, extra)

-----------------------------------------------------------------------------
(* The plan of a build (body_plan.rs, secrets.rs) *)

(* fold_dot_segments: `..` takes back what is before it, in any spelling.  *)
FoldDotSegments(parts) ==
    FoldLeft(LAMBDA out, part :
        CASE part \in {<<>>, <<".">>} -> out
          [] part = <<".", ".">> -> IF out = <<>> THEN out ELSE Front(out)
          [] OTHER -> Append(out, part),
        <<>>, parts)

ContextRoot == <<<<"p">>, <<"x">>>>
DockerfileLeavesContext(name) ==
    /\ Head(name) # "/"
    /\ ~IsPrefix(ContextRoot, FoldDotSegments(ContextRoot \o Split(name)))

IsFile(ctx, name) == \E i \in DOMAIN ctx.tree : ctx.tree[i] = [path |-> name, k |-> "file"]

(* The Dockerfile a service names, or the first of the default names there.*)
DockerfileName == <<"D">>
ContainerfileName == <<"C">>
DockerfileOf(b) ==
    CASE b.dockerfile # <<>> -> b.dockerfile
      [] b.dockerfile = <<>> /\ ~IsFile(b.ctx, DockerfileName) /\ IsFile(b.ctx, ContainerfileName)
           -> ContainerfileName
      [] OTHER -> DockerfileName

(* resolve_build_secrets: what cannot be resolved stops the build; an      *)
(* external secret, or one without a source, is left out.                  *)
ForwardedSecrets(b) == SelectSeq(b.secrets, LAMBDA s : s.source \in {"file", "content", "environment"})
SecretsResolve(b) ==
    \A i \in DOMAIN b.secrets :
        b.secrets[i].source \notin {"bad name", "undefined", "unreadable file", "unset variable"}

(* local_additional_contexts: images and URLs are the runtime's to fetch.  *)
LocalAdditional(b) == SelectSeq(b.additional, LAMBDA kind : kind = "local")
AdditionalExist(b) == \A i \in DOMAIN b.additional : b.additional[i] # "missing"

Refused(why) == [body |-> "refused", why |-> why, dockerfile |-> <<>>, parts |-> <<>>]

(* A directory of an additional context is sent as it is.                  *)
AdditionalParts(b) == [i \in DOMAIN LocalAdditional(b) |-> [failed |-> FALSE]]

Outside(b) == ~b.inline /\ DockerfileLeavesContext(DockerfileOf(b))

(* The name the Dockerfile has in the context, and the files beside it.    *)
ShippedName(b) ==
    CASE b.inline   -> InlineName
      [] ~b.inline  -> IF Outside(b) THEN OutsideName ELSE DockerfileOf(b)
ExtraFiles(b) ==
    [i \in DOMAIN ForwardedSecrets(b) |-> SecretName(ForwardedSecrets(b)[i])]
    \o (IF Outside(b) THEN <<OutsideName>> ELSE <<>>)

WhyNotPlanned(b) ==
    CASE ~AdditionalExist(b) -> "additional context"
      [] AdditionalExist(b) /\ b.remote -> ""
      [] OTHER -> IF ~b.ctx.exists THEN "context"
                  ELSE IF ~SecretsResolve(b) THEN "secrets"
                  ELSE IF Outside(b) /\ ~b.outsideReadable THEN "dockerfile" ELSE ""

(* plan_build: the Dockerfile of a context of the host is shipped with it, *)
(* or read and added when it lies outside.                                 *)
PlanOf(b, why, name) ==
    CASE why # "" -> Refused(why)
      [] why = "" /\ b.remote ->
           [body |-> "remote", why |-> "", dockerfile |-> DockerfileOf(b), parts |-> AdditionalParts(b)]
      [] why = "" /\ ~b.remote ->
           [body |-> "stream", why |-> "", dockerfile |-> name,
            parts |-> <<ContextArchive(b.ctx, b.inline, name, ExtraFiles(b))>> \o AdditionalParts(b)]

PlanBuild(b) == PlanOf(b, WhyNotPlanned(b), ShippedName(b))

-----------------------------------------------------------------------------
(* Reference definitions *)

RECURSIVE Matches(_, _)
(* What a pattern means: a star is any run of characters of one name, two  *)
(* stars any run at all, and two stars before a slash also nothing.        *)
Matches(tokens, s) ==
    IF tokens = <<>> THEN s = <<>>
    ELSE LET token == Head(tokens)
             Rest(k) == SubSeq(s, k + 1, Len(s))
         IN  CASE token.t = "star" ->
                    \E k \in 0 .. Len(s) : ~Has(SubSeq(s, 1, k), {"/"}) /\ Matches(Tail(tokens), Rest(k))
               [] token.t = "doublestar" ->
                    \/ \E k \in 0 .. Len(s) : Matches(Tail(tokens), Rest(k))
                    \/ Len(tokens) > 1 /\ tokens[2] = Literal("/") /\ Matches(Tail(Tail(tokens)), s)
               [] OTHER ->
                    /\ s # <<>> /\ Matches(Tail(tokens), Tail(s))
                    /\ CASE token.t = "any" -> Head(s) # "/"
                         [] token.t = "literal" -> token.c = Head(s)
                         [] token.t = "class" -> InClass(token, Head(s))

PatternText(pattern) == Normalize(IF Negated(pattern) THEN Tail(pattern) ELSE pattern)

Says(p, on) ==
    IF ~Has(p, Wild) THEN p # <<>> /\ p = on
    ELSE \E tokens \in {Tokens(p)} :
           /\ tokens # NoMatch
           /\ Matches(tokens, IF Has(p, {"/"}) \/ Stars(p) THEN on ELSE Last(Split(on)))

(* The last pattern that matches a path, or a directory it lies in, says   *)
(* whether the path is kept out of the image.                              *)
Excluded(path, patterns) ==
    \E i \in DOMAIN patterns :
      /\ ~Negated(patterns[i])
      /\ \E on \in {path} \cup AncestorDirs(path) : Says(PatternText(patterns[i]), on)
      /\ \A j \in i + 1 .. Len(patterns) : Negated(patterns[j]) =>
           \A on \in {path} \cup AncestorDirs(path) : ~Says(PatternText(patterns[j]), on)
=============================================================================
