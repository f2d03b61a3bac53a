------------------------------- MODULE KeyStore -------------------------------
(***************************************************************************)
(* What a store of keys promises, without sectors and records: a write     *)
(* touches its own key alone, it may drop the old value before it stores   *)
(* the new one, and a loss of power leaves all other keys as they were.    *)
(* Nothing is promised while the store is not sound.                       *)
(***************************************************************************)
CONSTANTS Keys, Values, Nothing

VARIABLES
  store,           \* the value of each key
  request,         \* the write under way: a set of at most one key and value
  sound

vars == <<store, request, sound>>

Empty == [key \in Keys |-> Nothing]

Begin(key, value) ==
  /\ request = {}
  /\ request' = {<<key, value>>}
  /\ store' = [store EXCEPT ![key] = Nothing]

\* A write returns only with its value in the store.
Return ==
  \E r \in request :
    /\ store' = [store EXCEPT ![r[1]] = r[2]]
    /\ request' = {}

Delete(key) ==
  /\ request = {}
  /\ store' = [store EXCEPT ![key] = Nothing]
  /\ UNCHANGED request

Format == request = {} /\ store' = Empty /\ UNCHANGED request

\* The key being written may be left with anything.
PowerLoss ==
  /\ request' = {}
  /\ \A key \in Keys :
       store'[key] # store[key] => \E value \in Values : <<key, value>> \in request

Init == store = Empty /\ request = {} /\ sound = TRUE

Sound ==
  \/ \E key \in Keys, value \in Values : Begin(key, value)
  \/ \E key \in Keys : Delete(key)
  \/ Return \/ Format \/ PowerLoss

Next == \/ sound /\ sound' /\ Sound
        \/ ~sound'
        \/ sound' /\ Format

Spec == Init /\ [][Next]_vars
=============================================================================
