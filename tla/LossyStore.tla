----------------------------- MODULE LossyStore -----------------------------
(***************************************************************************)
(* What a store.Store promises to the cache above it: a map that may lose  *)
(* any entry at any time, but never returns anything but the value that    *)
(* was set last, and never after its deadline.                             *)
(***************************************************************************)
EXTENDS Integers

CONSTANTS Keys, Values, NoValue, Miss, Forever

VARIABLES
  content,    \* the value of each key, or NoValue
  deadline,   \* when it expires, or Forever
  now,
  out         \* what the last Get returned

storeVars == <<content, deadline, now, out>>

Init ==
  /\ content = [k \in Keys |-> NoValue]
  /\ deadline = [k \in Keys |-> Forever]
  /\ now = 0
  /\ out = Miss

Expired(k) == deadline[k] # Forever /\ now >= deadline[k]

\* Each key of S keeps its value and its deadline, or loses both.
Loses(S) ==
  \A k \in S : \/ content'[k] = content[k] /\ deadline'[k] = deadline[k]
              \/ content'[k] = NoValue

\* The new value has a deadline in the future, or none; it too may be lost.
Set(k, v) ==
  /\ \/ content'[k] = v /\ (deadline'[k] = Forever \/ deadline'[k] > now)
     \/ content'[k] = NoValue
  /\ Loses(Keys \ {k})
  /\ now' >= now
  /\ UNCHANGED out

Get(k) ==
  /\ \/ content[k] # NoValue /\ ~Expired(k) /\ out' = content[k]
     \/ out' = Miss
  /\ Loses(Keys)
  /\ UNCHANGED now

\* Delete, Clear, eviction and expiry all lose entries.
Lose ==
  /\ Loses(Keys)
  /\ UNCHANGED <<now, out>>

Tick ==
  /\ now' > now
  /\ UNCHANGED <<content, deadline, out>>

Next ==
  \/ \E k \in Keys, v \in Values : Set(k, v)
  \/ \E k \in Keys : Get(k)
  \/ Lose
  \/ Tick

Spec == Init /\ [][Next]_storeVars
=============================================================================
