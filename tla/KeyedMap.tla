------------------------------ MODULE KeyedMap ------------------------------
(***************************************************************************)
(* What the caller of the hash table relies on: a finite map from keys to  *)
(* values.  An operation is asked for and then answered; an insertion may  *)
(* be refused only for a key that is not there yet, and changes nothing.   *)
(***************************************************************************)
EXTENDS Integers, FiniteSets

CONSTANTS Keys, Values, NULL

VARIABLES table,   \* the map
          size,    \* how many keys it reports
          op,      \* the operation in progress, "idle" between two
          key, value, ret

Empty == [k \in {} |-> NULL]
Present == key \in DOMAIN table

Init == table = Empty /\ size = 0 /\ op = "idle"

Ask == /\ op = "idle"
       /\ \/ op' \in {"insert", "get", "remove"}
             /\ key' \in Keys /\ value' \in Values
             /\ UNCHANGED <<table, size>>
          \/ op' = "destroy" /\ table' = Empty /\ UNCHANGED <<size, key, value>>
       /\ UNCHANGED ret

Answer(r, t) == ret' = r /\ table' = t /\ size' = Cardinality(DOMAIN t)

Insert == /\ op = "insert"
          /\ \/ Answer(TRUE, [k \in DOMAIN table \cup {key} |->
                                IF k = key THEN value ELSE table[k]])
             \/ ~Present /\ Answer(FALSE, table)

Get == op = "get" /\ Answer(IF Present THEN table[key] ELSE NULL, table)

Remove == /\ op = "remove"
          /\ Answer(Present, [k \in DOMAIN table \ {key} |-> table[k]])

Destroy == op = "destroy" /\ ret' = ret /\ table' = Empty /\ size' = 0

Reply == op' = "idle" /\ UNCHANGED <<key, value>>
         /\ (Insert \/ Get \/ Remove \/ Destroy)

Spec == Init /\ [][Ask \/ Reply]_<<table, size, op, key, value, ret>>
=============================================================================
