----------------------------- MODULE Variables -----------------------------
(***************************************************************************)
(* What export, unset and cd promise, without the list they keep: each     *)
(* name has at most one value, a builtin changes the names it is given one *)
(* after the other, and a change of directory records the directory that   *)
(* was left in OLDPWD.  Environment implements this specification.         *)
(***************************************************************************)
CONSTANTS Name, Value, Dir,
          OldPwd,    \* the name OLDPWD
          Unset,     \* no such variable
          Declared   \* exported without a value

VARIABLES variables,  \* the value of each name
          dir         \* the working directory

Init ==
  /\ variables \in [Name -> Value \cup {Unset, Declared}]
  /\ dir \in Dir

Set(n) ==
  /\ variables' = [variables EXCEPT ![n] = variables'[n]]
  /\ variables'[n] \in Value
  /\ UNCHANGED dir

Declare(n) ==
  /\ variables[n] = Unset
  /\ variables' = [variables EXCEPT ![n] = Declared]
  /\ UNCHANGED dir

Remove(n) ==
  /\ variables' = [variables EXCEPT ![n] = Unset]
  /\ UNCHANGED dir

Move(d) ==
  /\ dir' = d
  /\ variables' = [variables EXCEPT ![OldPwd] = <<dir>>]

Next ==
  \/ \E n \in Name : Set(n) \/ Declare(n) \/ Remove(n)
  \/ \E d \in Dir : Move(d)

Spec == Init /\ [][Next]_<<variables, dir>>
=============================================================================
