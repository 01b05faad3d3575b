\* Two updaters and four releases, of which the third does not run: enough for
\* one to install 4 while another still means to install 2 over 1.
SPECIFICATION Spec
CONSTANTS
  Updaters = {p1, p2}
  Original = original
  Nothing = none
  Releases = {1, 2, 3, 4}
  Works = {1, 2, 4}
INVARIANTS
    Recoverable
    UpdatedIsResolved
    NoDowngrade
CHECK_DEADLOCK FALSE
