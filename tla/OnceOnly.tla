------------------------------ MODULE OnceOnly ------------------------------
(***************************************************************************)
(* What POST /orders promises to whoever sends it: an order request that   *)
(* carries an Idempotency-Key creates at most one order for that key,      *)
(* every answer 201 names that order and is only given to the request the  *)
(* order was created for, and 409 means that the key belongs to another    *)
(* request.  Any request may be answered 503 at any time, whether or not   *)
(* its order was, or is yet to be, created.                                *)
(***************************************************************************)
CONSTANTS Slots,     \* the requests that may be open at one time
          Keys,      \* Idempotency-Key values
          NoKey,     \* a request without the header
          Payloads,  \* customer, product and quantity
          Valid,     \* those that pass the validation
          Ids        \* the numbers orders can have

VARIABLES asked,  \* the open requests, with the answer once there is one
          book    \* the orders created, with what they were created for

Closed == [key |-> NoKey, payload |-> "none", status |-> 0, order |-> 0]

Init ==
    /\ asked = [s \in Slots |-> Closed]
    /\ book = {}

For(key) == {entry \in book : entry.key = key}

Open == [key : Keys \cup {NoKey}, payload : Payloads,
         status : {0}, order : {0}]

\* A request comes in.
Ask(s) ==
    /\ asked[s] = Closed
    /\ UNCHANGED book
    /\ asked'[s] \in Open
    /\ asked' = [asked EXCEPT ![s] = asked'[s]]

\* An order is created for an open request, possibly after it was answered;
\* that may be the last thing there was to do for it.
Create(s) ==
    /\ asked[s] # Closed
    /\ asked[s].payload \in Valid
    /\ asked[s].key # NoKey => For(asked[s].key) = {}
    /\ book' # book
    /\ \E id \in Ids \ {entry.id : entry \in book} :
          book' = book \cup {[id |-> id, key |-> asked[s].key,
                              payload |-> asked[s].payload]}
    /\ asked' \in {asked, [asked EXCEPT ![s] = Closed]}

\* It is answered once, and truthfully.
Answer(s) ==
    /\ asked[s] # Closed
    /\ asked[s].status = 0
    /\ UNCHANGED book
    /\ LET key     == asked[s].key
           payload == asked[s].payload
           Reply(status, id) ==
               asked' = [asked EXCEPT ![s].status = status, ![s].order = id]
       IN \/ \E entry \in For(key) :
                \/ entry.payload = payload /\ Reply(201, entry.id)
                \/ key # NoKey /\ entry.payload # payload /\ Reply(409, 0)
          \/ payload \notin Valid /\ Reply(400, 0)
          \/ Reply(503, 0)

\* Nothing is left to be done for it.
Close(s) ==
    /\ asked[s] # Closed
    /\ UNCHANGED book
    /\ asked' = [asked EXCEPT ![s] = Closed]

Next == \E s \in Slots : Ask(s) \/ Create(s) \/ Answer(s) \/ Close(s)

Spec == Init /\ [][Next]_<<asked, book>>
=============================================================================
