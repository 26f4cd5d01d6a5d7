--------------------------- MODULE OrderRequests ----------------------------
(***************************************************************************)
(* Creating an order: the form of wwwroot/app.js (one record per open      *)
(* browser page), the POST /orders handler of Program.cs with              *)
(* CreateOrderIdempotentlyAsync of OrdersRepository.cs (one slot per HTTP  *)
(* request), and the PostgreSQL tables orders and order_requests.          *)
(*                                                                         *)
(* A slot holds the handler and its transaction, because the transaction   *)
(* may outlive the handler: a COMMIT whose answer is lost can still        *)
(* succeed after the handler has answered 503, and until it is resolved    *)
(* its uncommitted order_requests row blocks every other request with the  *)
(* same key.                                                               *)
(***************************************************************************)
EXTENDS Naturals

CONSTANTS Pages,        \* browser pages showing the Orders GUI
          Nobody,       \* waits for a request that was given up
          Slots,        \* HTTP requests and transactions alive at one time
          PageKeys,     \* what createRequestKey() returns
          CallerKeys,   \* keys chosen by callers of the API
          NoKey,        \* no Idempotency-Key header
          Payloads,     \* customer, product and quantity of an order
          Default,      \* the initial content of the form
          Valid,        \* the payloads that pass ValidateOrder and the catalog
          MaxRequests   \* bound on the requests ever sent

ASSUME KeysAssumption ==
    /\ Nobody \notin Pages
    /\ NoKey \notin PageKeys \cup CallerKeys
    /\ PageKeys \cap CallerKeys = {}
    /\ Valid \subseteq Payloads /\ Default \in Payloads
    /\ "none" \notin Payloads
    /\ MaxRequests \in Nat

VARIABLES page,      \* the create form of each page
          request,   \* each slot's handler and transaction
          rows,      \* table order_requests, by request_id
          orders,    \* table orders
          sequence,  \* the next value of the identity of orders
          sent       \* how many requests were sent

vars == <<page, request, rows, orders, sequence, sent>>
database == <<rows, orders, sequence>>

Keys == PageKeys \cup CallerKeys

\* Points of the handler, then: answer ready, answer delivered or dropped.
Working == {"received", "reserve", "lookup", "insert", "commit"}
Points  == {"sent", "answered", "closed"} \cup Working

\* Transactions; an open one that holds a key has inserted its row.
TxStates == {"none", "open", "committing", "committed", "aborted"}

\* intent (history): the page and what it was asked for, see Intent below.
NoRequest == [from |-> Nobody, intent |-> <<Nobody, 0>>, key |-> NoKey,
              payload |-> "none", at |-> "closed", tx |-> "none",
              order |-> 0, status |-> 0]

Requests ==
    [from : Pages \cup {Nobody}, intent : (Pages \cup {Nobody}) \X Nat,
     key : Keys \cup {NoKey}, payload : Payloads, at : Points, tx : TxStates,
     order : Nat, status : {0, 201, 400, 409, 503}]

NoRow == [payload |-> "none", order |-> 0]

\* An order remembers (history) the request it was created for; its quantity
\* can be changed afterwards.
Orders == [id : Nat, payload : Payloads, asked : Payloads,
           key : Keys \cup {NoKey}, intent : (Pages \cup {Nobody}) \X Nat]

NoPending == [key |-> NoKey, fingerprint |-> "none"]

\* A page as it is loaded.
NewPage(intent) == [form |-> Default, pending |-> NoPending, loading |-> FALSE,
                    shown |-> "none", order |-> 0, intent |-> intent]

Init ==
    /\ page = [p \in Pages |-> NewPage(0)]
    /\ request = [s \in Slots |-> NoRequest]
    /\ rows = [k \in Keys |-> NoRow]
    /\ orders = {}
    /\ sequence = 1
    /\ sent = 0

-----------------------------------------------------------------------------
(* The form of app.js.                                                     *)

\* createRequestKey(): 128 random bits, so a key nobody has.
FreshKeys == {k \in PageKeys : /\ rows[k] = NoRow
                               /\ \A s \in Slots : request[s].key # k
                               /\ \A p \in Pages : page[p].pending.key # k}

\* Sends a request; the caller waits for it unless it is Nobody.
Send(s, from, intent, key, payload) ==
    /\ request[s] = NoRequest
    /\ sent < MaxRequests
    /\ sent' = sent + 1
    /\ request' = [request EXCEPT ![s] =
          [from |-> from, intent |-> intent, key |-> key, payload |-> payload,
           at |-> "sent", tx |-> "none", order |-> 0, status |-> 0]]

\* Mutation of PendingKeys: every submission takes a new key.
PendingKeysFresh(p) == FreshKeys

\* Mutation of PendingKeys: the request is sent without the header.
PendingKeysMissing(p) == {NoKey}

\* The keys a submission may use: the pending one if it was for this payload.
PendingKeys(p) ==
    IF page[p].pending.fingerprint = page[p].form
    THEN {page[p].pending.key} ELSE FreshKeys

\* createOrder up to the fetch; createLoading and validateCreateForm guard it.
Submit(p) ==
    /\ ~page[p].loading
    /\ page[p].form \in Valid
    /\ \E s \in Slots, key \in PendingKeys(p) :
          /\ Send(s, p, <<p, page[p].intent>>, key, page[p].form)
          /\ page' = [page EXCEPT
                ![p].pending = [key |-> key, fingerprint |-> page[p].form],
                ![p].loading = TRUE, ![p].shown = "none", ![p].order = 0]
    /\ UNCHANGED database

\* handleCreateInput; the controls are disabled while a request is loading.
Edit(p) ==
    /\ ~page[p].loading
    /\ \E form \in Payloads \ {page[p].form} :
          page' = [page EXCEPT ![p].form = form, ![p].pending = NoPending,
                     ![p].intent = IF page[p].pending = NoPending
                                   THEN @ ELSE @ + 1]
    /\ UNCHANGED <<request, database, sent>>

\* Its transaction is still alive in PostgreSQL.
Unresolved(r) == r.tx \in {"open", "committing"}

\* A slot is free again when the handler and its transaction are over.
Settled(r) == IF r.at = "closed" /\ ~Unresolved(r) THEN NoRequest ELSE r

\* What createOrder makes of a response: 201 and 409 (or 400) end the attempt,
\* anything else keeps the key for a retry.
Shown(form, r) ==
    CASE r.status = 201 ->
            [form EXCEPT !.pending = NoPending, !.loading = FALSE,
                         !.form = Default, !.shown = "created",
                         !.order = r.order, !.intent = @ + 1]
      [] r.status \in {400, 409} ->
            [form EXCEPT !.pending = NoPending, !.loading = FALSE,
                         !.shown = "failed", !.intent = @ + 1]
      [] OTHER ->
            [form EXCEPT !.loading = FALSE, !.shown = "failed"]

\* The response reaches the page that waits for it, if any still does.
Deliver(s) ==
    /\ request[s].at = "answered"
    /\ IF request[s].from \in Pages
       THEN page' = [page EXCEPT ![request[s].from] = Shown(@, request[s])]
       ELSE UNCHANGED page
    /\ request' = [request EXCEPT ![s] = Settled([@ EXCEPT !.at = "closed"])]
    /\ UNCHANGED <<database, sent>>

\* Requests nobody waits for any more: an unreceived one may be lost or may
\* still arrive, a received one runs on until it notices.
Detached(p, lost) ==
    [s \in Slots |->
       IF request[s].from # p THEN request[s]
       ELSE IF lost /\ request[s].at = "sent" THEN NoRequest
       ELSE [request[s] EXCEPT !.from = Nobody]]

\* Mutation of GiveUp: the request is not aborted, so its response is still
\* applied when it comes.
GiveUpKeepingRequest(p) ==
    /\ page[p].loading
    /\ page' = [page EXCEPT ![p].loading = FALSE, ![p].shown = "failed"]
    /\ UNCHANGED <<request, database, sent>>

\* Mutation of GiveUp: the finally block does not run.
GiveUpStillLoading(p) ==
    /\ page[p].loading
    /\ page' = [page EXCEPT ![p].shown = "failed"]
    /\ \E lost \in BOOLEAN : request' = Detached(p, lost)
    /\ UNCHANGED <<database, sent>>

\* REQUEST_TIMEOUT_MS, a network error or an unreadable response.
GiveUp(p) ==
    /\ page[p].loading
    /\ page' = [page EXCEPT ![p].loading = FALSE, ![p].shown = "failed"]
    /\ \E lost \in BOOLEAN : request' = Detached(p, lost)
    /\ UNCHANGED <<database, sent>>

\* The page is reloaded and forgets what it was doing.
Reload(p) ==
    /\ page[p].pending # NoPending
    /\ page' = [page EXCEPT ![p] = NewPage(@.intent + 1)]
    /\ \E lost \in BOOLEAN : request' = Detached(p, lost)
    /\ UNCHANGED <<database, sent>>

\* Another program calls POST /orders, with any key of its own or none.
CallerSends(s) ==
    /\ \E key \in CallerKeys \cup {NoKey}, payload \in Payloads :
          Send(s, Nobody, <<Nobody, 0>>, key, payload)
    /\ UNCHANGED <<page, database>>

-----------------------------------------------------------------------------
(* The handler.                                                            *)

At(s, point) == request[s].at = point

Answered(s, status, id) ==
    request' = [request EXCEPT ![s].at = "answered", ![s].status = status,
                               ![s].order = id]

\* Validation comes before the database is touched; it chooses the keyed or
\* the plain insertion.
Receive(s) ==
    /\ At(s, "sent")
    /\ IF request[s].payload \notin Valid
       THEN Answered(s, 400, 0)
       ELSE request' = [request EXCEPT ![s].at =
                           IF request[s].key = NoKey THEN "received"
                                                     ELSE "reserve"]
    /\ UNCHANGED <<page, database, sent>>

\* An uncommitted row with that request_id.
Holds(t, key) == request[t].key = key /\ Unresolved(request[t])
Held(key) == \E t \in Slots : Holds(t, key)

\* Mutation of Reserve: a look before the insertion instead of a unique key.
ReserveUnlocked(s) ==
    /\ At(s, "reserve")
    /\ request' = [request EXCEPT
          ![s].tx = IF rows[request[s].key] = NoRow THEN "open" ELSE @,
          ![s].at = IF rows[request[s].key] = NoRow THEN "insert" ELSE "lookup"]
    /\ UNCHANGED <<page, database, sent>>

\* INSERT INTO order_requests ... ON CONFLICT DO NOTHING: waits while another
\* transaction holds the key, then finds its row or none.
Reserve(s) ==
    /\ At(s, "reserve")
    /\ ~Held(request[s].key)
    /\ request' = [request EXCEPT
          ![s].tx = IF rows[request[s].key] = NoRow THEN "open" ELSE @,
          ![s].at = IF rows[request[s].key] = NoRow THEN "insert" ELSE "lookup"]
    /\ UNCHANGED <<page, database, sent>>

\* Mutation of Lookup: the saved request is read from the order itself.
LookupOrder(s) ==
    /\ At(s, "lookup")
    /\ \E o \in orders : o.id = rows[request[s].key].order
          /\ IF o.payload = request[s].payload
             THEN Answered(s, 201, o.id) ELSE Answered(s, 409, 0)
    /\ UNCHANGED <<page, database, sent>>

\* Zero rows inserted: replay the recorded order, or report the conflict, or
\* an incomplete record.
Lookup(s) ==
    /\ At(s, "lookup")
    /\ LET row == rows[request[s].key]
       IN IF row.order = 0 THEN Answered(s, 503, 0)
          ELSE IF row.payload = request[s].payload
          THEN Answered(s, 201, row.order)
          ELSE Answered(s, 409, 0)
    /\ UNCHANGED <<page, database, sent>>

\* INSERT INTO orders ... RETURNING order_id, UPDATE order_requests SET
\* order_id, and COMMIT is sent; without a key the INSERT is all.  The sequence
\* is never rolled back, and nothing is visible before PostgreSQL commits.
Insert(s) ==
    /\ \/ At(s, "insert") /\ request[s].tx = "open"
       \/ At(s, "received")
    /\ sequence' = sequence + 1
    /\ request' = [request EXCEPT ![s].order = sequence, ![s].at = "commit",
                                  ![s].tx = "committing"]
    /\ UNCHANGED <<page, rows, orders, sent>>

\* The COMMIT, or the plain INSERT, is acknowledged.
Committed(s) ==
    /\ At(s, "commit") /\ request[s].tx = "committed"
    /\ Answered(s, 201, request[s].order)
    /\ UNCHANGED <<page, database, sent>>

\* CommandTimeoutSeconds, a lost connection, a cancelled request or a crash:
\* the transaction is left to PostgreSQL and the answer is 503 or none.
GiveUpOnDatabase(s) ==
    /\ request[s].at \in Working
    /\ request' = [request EXCEPT ![s] =
          IF Unresolved(@) THEN [@ EXCEPT !.at = "answered", !.status = 503]
          ELSE [@ EXCEPT !.at = "answered", !.status = 503,
                         !.tx = "none", !.order = 0]]
    /\ UNCHANGED <<page, database, sent>>

-----------------------------------------------------------------------------
(* PostgreSQL.                                                             *)

\* Mutation of RowOf: the row is committed without the UPDATE of order_id.
RowUnlinked(r) == [payload |-> r.payload, order |-> 0]

\* The order_requests row and the order a transaction has written.
RowOf(r)   == [payload |-> r.payload, order |-> r.order]
OrderOf(r) == [id |-> r.order, payload |-> r.payload, asked |-> r.payload,
               key |-> r.key, intent |-> r.intent]

\* Ends the transaction of a slot; only a running handler learns how.
EndTx(s, outcome) ==
    request' = [request EXCEPT ![s] =
                  IF @.at \in Working THEN [@ EXCEPT !.tx = outcome]
                  ELSE Settled([@ EXCEPT !.tx = "none", !.order = 0])]

DbCommits(s) ==
    /\ request[s].tx = "committing"
    /\ orders' = orders \cup {OrderOf(request[s])}
    /\ rows' = IF request[s].key = NoKey THEN rows
               ELSE [rows EXCEPT ![request[s].key] = RowOf(request[s])]
    /\ EndTx(s, "committed")
    /\ UNCHANGED <<page, sequence, sent>>

\* The transaction is disposed of, its connection is lost, or the server fails.
DbRollsBack(s) ==
    /\ Unresolved(request[s])
    /\ EndTx(s, "aborted")
    /\ UNCHANGED <<page, database, sent>>

\* PUT /orders/{orderId}/quantity.
UpdateQuantity ==
    /\ \E o \in orders, payload \in Valid :
          /\ payload # o.payload
          /\ orders' = (orders \ {o}) \cup {[o EXCEPT !.payload = payload]}
    /\ UNCHANGED <<page, request, rows, sequence, sent>>

-----------------------------------------------------------------------------
Handle(s) == \/ Receive(s) \/ Reserve(s) \/ Lookup(s) \/ Insert(s)
             \/ Committed(s) \/ GiveUpOnDatabase(s)

Next ==
    \/ \E p \in Pages : Submit(p) \/ Edit(p) \/ GiveUp(p) \/ Reload(p)
    \/ \E s \in Slots : \/ CallerSends(s) \/ Deliver(s) \/ Handle(s)
                        \/ DbCommits(s) \/ DbRollsBack(s)
    \/ UpdateQuantity

Spec == Init /\ [][Next]_vars

\* Mutation of Left: the transaction of a failed handler is never disposed of.
NeverLeft(s) == request[s].tx = "committing"

\* A transaction that PostgreSQL ends by itself: its COMMIT has been sent, or
\* its handler is gone (await using disposes of it, or the connection drops).
Left(s) == \/ request[s].tx = "committing"
           \/ request[s].tx = "open" /\ request[s].at \notin Working

\* The handler goes on or times out, PostgreSQL ends what was left to it, the
\* browser gives up after REQUEST_TIMEOUT_MS.  Nobody has to submit or retry.
Fairness ==
    /\ \A s \in Slots : /\ WF_vars(Handle(s))
                        /\ WF_vars(Deliver(s))
                        /\ WF_vars(Left(s) /\ (DbCommits(s) \/ DbRollsBack(s)))
    /\ \A p \in Pages : WF_vars(GiveUp(p))

FairSpec == Spec /\ Fairness

-----------------------------------------------------------------------------
Forms == [form : Payloads,
          pending : [key : PageKeys, fingerprint : Payloads] \cup {NoPending},
          loading : BOOLEAN,
          shown : {"none", "created", "failed"},
          order : Nat, intent : Nat]

TypeOK ==
    /\ page \in [Pages -> Forms]
    /\ request \in [Slots -> Requests \cup {NoRequest}]
    /\ rows \in [Keys -> [payload : Payloads, order : Nat] \cup {NoRow}]
    /\ orders \subseteq Orders
    /\ sequence \in Nat /\ sent \in 0..MaxRequests

\* "Retrying will reuse the same request key and will not create a duplicate
\* order" (app.js): what a page was asked for is ordered at most once, however
\* often it is submitted until it is confirmed, rejected, edited or forgotten,
\* and whatever was lost, late, timed out or committed after its 503.
OneOrderPerIntent ==
    \A a, b \in orders : a.intent = b.intent /\ a.intent[1] \in Pages => a = b

\* An order shown as created exists, and is the one the page last asked for:
\* no late response of an earlier submission is taken for the answer.
ConfirmedIsMine ==
    \A p \in Pages : page[p].shown = "created" =>
        \E o \in orders : /\ o.id = page[p].order
                          /\ o.intent = <<p, page[p].intent - 1>>

\* The two tables agree although requests fail half way: a committed
\* order_requests row names the order created with it (so a retry can always
\* be replayed), and no keyed order exists without its row.
RecordsComplete ==
    /\ \A k \in Keys : rows[k] # NoRow =>
          \E o \in orders : /\ o.id = rows[k].order /\ o.key = k
                            /\ o.asked = rows[k].payload
    /\ \A o \in orders : o.key \in Keys => rows[o.key].order = o.id

\* The protocol implements OnceOnly: what is said of an open request is what
\* its handler has answered, and an order is booked when it is committed.
Said(r) == IF r = NoRequest
           THEN [key |-> NoKey, payload |-> "none", status |-> 0, order |-> 0]
           ELSE [key |-> r.key, payload |-> r.payload, status |-> r.status,
                 order |-> IF r.status = 201 THEN r.order ELSE 0]

Booked(o) == [id |-> o.id, key |-> o.key, payload |-> o.asked]

Once == INSTANCE OnceOnly WITH Ids <- 1..MaxRequests,
                               asked <- [s \in Slots |-> Said(request[s])],
                               book <- {Booked(o) : o \in orders}

OnceOnlySpec == Once!Spec

\* A key whose order is being written becomes free for the retries that wait
\* for it, even when the handler that holds it has failed.
KeyIsReleased == \A k \in Keys : Held(k) ~> ~Held(k)

\* A submission ends: the form does not stay locked by a lost request.
SubmissionEnds == \A p \in Pages : page[p].loading ~> ~page[p].loading
=============================================================================
