------------------------------ MODULE ClassNames ------------------------------
(***************************************************************************)
(* How src/src/entry.cc decides by a class's signature whether the class   *)
(* is in scope and whether it is the progress point's.  A signature and a  *)
(* scope are sequences of characters: "L", then the name, then ";", and a  *)
(* scope in which prepare_scope has made slashes of the dots.              *)
(*                                                                         *)
(* Beside a definition stands the same with a plausible mistake in it      *)
(* (Anywhere, Once); neither is used here.                                 *)
(***************************************************************************)
EXTENDS Naturals, Sequences

OccursAt(part, s, i) ==
    /\ i + Len(part) <= Len(s) + 1
    /\ \A k \in 1 .. Len(part) : s[i + k - 1] = part[k]

\* strstr(s, part) is the address of s[i].
strstr(s, part, i) ==
    OccursAt(part, s, i) /\ \A j \in 1 .. i - 1 : ~OccursAt(part, s, j)

is_class_fqn_prefix_Anywhere(prefix, class_sig) ==
    \E i \in 1 .. Len(class_sig) : strstr(class_sig, prefix, i)

\* The prefix is found behind the leading L.
is_class_fqn_prefix(prefix, class_sig) == strstr(class_sig, prefix, 2)

contains_class_fqn_prefix(elements, class_sig) ==
    \E scope \in elements : is_class_fqn_prefix(scope, class_sig)

is_in_allowed_scope(search_scopes, ignored_scopes, class_sig) ==
    /\ ~contains_class_fqn_prefix(ignored_scopes, class_sig)
    /\ contains_class_fqn_prefix(search_scopes, class_sig)

\* The check for the progress point's class: first for a prefix, then for the whole
\* signature without its last character.
is_progress_class_Once(progress_class, class_sig) == strstr(class_sig, progress_class, 1)

is_progress_class(progress_class, class_sig) ==
    /\ strstr(class_sig, progress_class, 1)
    /\ SubSeq(class_sig, 1, Len(class_sig) - 1) = progress_class

-----------------------------------------------------------------------------
(* What is asked for, in terms of names *)

Name(class_sig) == SubSeq(class_sig, 2, Len(class_sig) - 1)

StartsWith(name, prefix) ==
    Len(prefix) <= Len(name) /\ \A k \in 1 .. Len(prefix) : name[k] = prefix[k]

\* The signature of a class that is no array.
ClassSignature(sig) ==
    Len(sig) > 2 /\ sig[1] = "L" /\ sig[Len(sig)] = ";"

\* A scope that may be part of a name and does not consist of the letter L alone.
PlainScope(scope) ==
    /\ \A k \in 1 .. Len(scope) : scope[k] # ";"
    /\ \E k \in 1 .. Len(scope) : scope[k] # "L" /\ \A j \in 1 .. k - 1 : scope[j] = "L"

=============================================================================
