--------------------------- MODULE DurableSnapshot ---------------------------
(***************************************************************************)
(* What a store that persists whole snapshots promises its users, without  *)
(* files: a commit that returned Ok is what every later restart finds,     *)
(* until the next Ok; a restart may in addition find one of the commits    *)
(* attempted since, and settles on it.  A value is the sequence of commits *)
(* it reflects.                                                            *)
(***************************************************************************)
EXTENDS Naturals, Sequences

CONSTANT CommitIds

VARIABLES
    value,   \* the snapshot users see
    tries    \* the values a restart may settle on

Init == value = <<>> /\ tries = {<<>>}

Attempt(c) == tries' = tries \cup {Append(value, c)} /\ UNCHANGED value

Commit(v) == v \in tries /\ value' = v /\ tries' = {v}

(* Commit of the attempted value, and a restart, look alike from outside *)
Next ==
    \/ \E c \in CommitIds : Attempt(c)
    \/ \E v \in tries : Commit(v)

Spec == Init /\ [][Next]_<<value, tries>>
=============================================================================
