--------------------------- MODULE MCClassPrepare ---------------------------
(* TLC instances of ClassPrepare. *)
EXTENDS ClassPrepare, TLC

CONSTANTS main1, main2, long, other

\* Two classes of one name (loaders may share it), one whose name starts like theirs,
\* and one with their name further behind.  The name starts with an L itself, so that
\* a search for a scope may also end at the L of a signature.
MCClasses == {main1, main2, long, other}
MCSignature == [c \in MCClasses |->
    CASE c \in {main1, main2} -> <<"L", "L", "a", ";">>
      [] c = long  -> <<"L", "L", "a", "a", ";">>
      [] c = other -> <<"L", "a", "L", "a", ";">>]

ScopeLA  == {<<"L", "a">>}
ScopeLAA == {<<"L", "a", "a">>}
ClassLA  == <<"L", "L", "a">>

=============================================================================
