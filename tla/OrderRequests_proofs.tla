------------------------ MODULE OrderRequests_proofs ------------------------
(***************************************************************************)
(* Proofs about OrderRequests for any number of pages, requests, keys and  *)
(* payloads: types, one order for what a page was asked for, truthful      *)
(* confirmations, tables that agree, and the promise of OnceOnly.          *)
(***************************************************************************)
EXTENDS OrderRequests, FiniteSets, FiniteSetTheorems, TLAPS

-----------------------------------------------------------------------------
(* The inductive invariant.                                                *)

\* What a request may be at each point of its handler: which transaction it
\* has, whether it is answered.
Fits(r) ==
    /\ r.at \in {"sent", "received", "reserve", "lookup"} => r.tx = "none"
    /\ r.at = "insert" => r.tx \in {"open", "aborted"}
    /\ r.at = "commit" => r.tx \in {"committing", "committed", "aborted"}
    /\ r.at = "closed" => Unresolved(r)
    /\ r.at = "received" => r.key = NoKey
    /\ r.at \in {"reserve", "lookup", "insert"} \/ r.tx = "open" =>
          r.key # NoKey
    /\ r.at \in Working \/ Unresolved(r) => r.payload \in Valid
    /\ r.at \in Working \cup {"sent"} => r.status = 0
    /\ r.at \in {"answered", "closed"} => r.status # 0
    /\ r.at \in {"answered", "closed"} /\ Unresolved(r) => r.status = 503

\* Every request is somewhere its handler can be.
HandlersMatch == \A s \in Slots : request[s] # NoRequest => Fits(request[s])

\* The identity gives a number to one order only.
NumbersMatch ==
    /\ sequence >= 1
    /\ \A o \in orders : 1 <= o.id /\ o.id < sequence
    /\ \A a, b \in orders : a.id = b.id => a = b
    /\ \A s \in Slots : request[s].tx = "committing" =>
          /\ 1 <= request[s].order /\ request[s].order < sequence
          /\ \A o \in orders : o.id # request[s].order
    /\ \A s, t \in Slots :
          /\ request[s].tx = "committing" /\ request[t].tx = "committing"
          /\ request[s].order = request[t].order
          => s = t

\* The unique key of order_requests: one transaction at a time may write the
\* row of a key, while there is none; who found a row goes on to read it.
RowsGuarded ==
    /\ \A s, t \in Slots :
          /\ Unresolved(request[s]) /\ Unresolved(request[t])
          /\ request[s].key = request[t].key /\ request[s].key # NoKey
          => s = t
    /\ \A s \in Slots : Unresolved(request[s]) /\ request[s].key # NoKey =>
          rows[request[s].key] = NoRow
    /\ \A s \in Slots : request[s].at = "lookup" =>
          rows[request[s].key] # NoRow

\* An answer 201, ready or delivered, names an order with the same key and
\* content.
AnswersTrue ==
    \A s \in Slots : request[s].tx = "committed" \/ request[s].status = 201 =>
        \E o \in orders : /\ o.id = request[s].order
                          /\ o.key = request[s].key
                          /\ o.asked = request[s].payload

\* What was ever sent and may have an order: a key, and whose intent it is.
Claim(x) == [key |-> x.key, intent |-> x.intent]
\* All the claims there are.
Claims == {Claim(request[s]) : s \in {t \in Slots : request[t] # NoRequest}}
             \cup {Claim(o) : o \in orders}

\* A page's intents and its keys go together, one to one: whatever carries a
\* key of a page was sent for the intent that key was created for.
ClaimsMatch ==
    /\ \A c \in Claims : c.key \in PageKeys <=> c.intent[1] \in Pages
    /\ \A c, d \in Claims : c.key \in PageKeys =>
          (c.key = d.key <=> c.intent = d.intent)

\* Nothing was sent for a page's later intents, and nothing for its present
\* one without the pending key, which is nobody else's.
PendingMatches ==
    \A p \in Pages :
        /\ \A c \in Claims : c.intent[1] = p =>
              /\ c.intent[2] <= page[p].intent
              /\ c.intent[2] = page[p].intent => c.key = page[p].pending.key
        /\ \A c \in Claims : c.key = page[p].pending.key /\ c.key # NoKey =>
              c.intent = <<p, page[p].intent>>
        /\ \A q \in Pages : /\ page[p].pending.key = page[q].pending.key
                            /\ page[p].pending # NoPending
                            => p = q

\* The form: the pending key is for what the form holds, and a page waits for
\* at most one request, sent for its present intent.
FormsMatch ==
    \A p \in Pages :
        /\ page[p].pending # NoPending =>
              page[p].pending.fingerprint = page[p].form
        /\ page[p].loading => page[p].pending # NoPending
        /\ page[p].shown = "created" => page[p].pending = NoPending
        /\ \A s \in Slots : request[s].from = p /\ request[s].at # "closed" =>
              /\ page[p].loading
              /\ request[s].intent = <<p, page[p].intent>>
        /\ \A s, t \in Slots :
              /\ request[s].from = p /\ request[s].at # "closed"
              /\ request[t].from = p /\ request[t].at # "closed"
              => s = t

\* All of it.
IInv ==
    /\ TypeOK /\ HandlersMatch /\ NumbersMatch /\ RowsGuarded /\ AnswersTrue
    /\ RecordsComplete /\ ClaimsMatch /\ PendingMatches /\ FormsMatch
    /\ ConfirmedIsMine

\* No number beyond the requests sent is handed out (for OnceOnly only): the
\* requests that may still take one.
Numberless == {s \in Slots :
    request[s].at \in {"sent", "received", "reserve", "lookup", "insert"}}

\* Each of them takes one at most.
NumbersLast ==
    /\ IsFiniteSet(Numberless)
    /\ sequence + Cardinality(Numberless) <= sent + 1
-----------------------------------------------------------------------------
(* Types.                                                                  *)

\* Only a free slot has no key of a request; it is closed, without anything
\* to resolve.
LEMMA FreeSlots ==
    /\ NoRequest \notin Requests
    /\ NoRequest.at = "closed" /\ NoRequest.tx = "none" /\ NoRequest.status = 0
    /\ NoRequest.key = NoKey /\ NoRequest.from = Nobody
    /\ NoRequest.order = 0 /\ NoRequest.payload = "none"
  BY KeysAssumption DEF NoRequest, Requests

\* A request that is not closed, or has a transaction, is one.
LEMMA RequestTyped ==
    ASSUME TypeOK, NEW s \in Slots,
           request[s].at # "closed" \/ request[s].tx # "none" \/ request[s] # NoRequest
    PROVE  request[s] \in Requests
  BY FreeSlots DEF TypeOK

\* A request after a step of its handler or its transaction, which leaves alone
\* whose it is and what it asks for.
Goes(r, at, tx, order, status) ==
    [from |-> r.from, intent |-> r.intent, key |-> r.key,
     payload |-> r.payload, at |-> at, tx |-> tx, order |-> order,
     status |-> status]

\* A request stays one.
LEMMA GoesTyped ==
    ASSUME NEW r \in Requests, NEW at \in Points, NEW tx \in TxStates,
           NEW order \in Nat, NEW status \in {0, 201, 400, 409, 503}
    PROVE  Goes(r, at, tx, order, status) \in Requests
  BY DEF Requests, Goes

\* A slot that is settled holds a request, or is free.
LEMMA SettledTyped ==
    ASSUME NEW r \in Requests
    PROVE  Settled(r) \in Requests \cup {NoRequest}
  BY DEF Settled

\* Keys a submission may use.
LEMMA PendingKeysTyped ==
    ASSUME TypeOK, NEW p \in Pages, NEW key \in PendingKeys(p)
    PROVE  key \in PageKeys
  BY KeysAssumption DEF TypeOK, PendingKeys, FreshKeys, Forms, NoPending

\* Sending fills a free slot.
LEMMA SendTyped ==
    ASSUME TypeOK, NEW s \in Slots, NEW from \in Pages \cup {Nobody},
           NEW intent \in (Pages \cup {Nobody}) \X Nat,
           NEW key \in Keys \cup {NoKey}, NEW payload \in Payloads,
           Send(s, from, intent, key, payload)
    PROVE  /\ request' \in [Slots -> Requests \cup {NoRequest}]
           /\ sent' \in 0..MaxRequests
  <1>1. [from |-> from, intent |-> intent, key |-> key, payload |-> payload,
         at |-> "sent", tx |-> "none", order |-> 0, status |-> 0] \in Requests
    BY DEF Requests, Points, TxStates
  <1> QED  BY <1>1, KeysAssumption DEF TypeOK, Send

\* Giving up leaves requests, or free slots.
LEMMA DetachedTyped ==
    ASSUME TypeOK, NEW p \in Pages, NEW lost \in BOOLEAN
    PROVE  Detached(p, lost) \in [Slots -> Requests \cup {NoRequest}]
  <1>1. ASSUME NEW s \in Slots, request[s].from = p
        PROVE  [request[s] EXCEPT !.from = Nobody] \in Requests
    BY <1>1, FreeSlots, KeysAssumption DEF TypeOK, Requests
  <1> QED  BY <1>1 DEF TypeOK, Detached
-----------------------------------------------------------------------------
(* What the steps do to one slot.                                          *)

\* Its fields.
LEMMA GoesFields ==
    ASSUME NEW r, NEW at, NEW tx, NEW order, NEW status
    PROVE  /\ Goes(r, at, tx, order, status).from = r.from
           /\ Goes(r, at, tx, order, status).intent = r.intent
           /\ Goes(r, at, tx, order, status).key = r.key
           /\ Goes(r, at, tx, order, status).payload = r.payload
           /\ Goes(r, at, tx, order, status).at = at
           /\ Goes(r, at, tx, order, status).tx = tx
           /\ Goes(r, at, tx, order, status).order = order
           /\ Goes(r, at, tx, order, status).status = status
  BY DEF Goes

-----------------------------------------------------------------------------
(* What the steps of handlers and transactions do to their slot.           *)

\* An answer.
LEMMA AnsweredStep ==
    ASSUME TypeOK, NEW s \in Slots, request[s] \in Requests,
           NEW status, NEW id, Answered(s, status, id)
    PROVE  request' = [request EXCEPT ![s] =
              Goes(request[s], "answered", request[s].tx, id, status)]
  <1> DEFINE r  == request[s]
             g1 == Goes(r, "answered", r.tx, r.order, r.status)
             g2 == Goes(r, "answered", r.tx, r.order, status)
             g3 == Goes(r, "answered", r.tx, id, status)
  <1>1. [r EXCEPT !.at = "answered"] = g1
    BY DEF Goes, Requests
  <1>2. [g1 EXCEPT !.status = status] = g2 /\ [g2 EXCEPT !.order = id] = g3
    BY DEF Goes
  <1>3. [r EXCEPT !.at = "answered", !.status = status] = g2
    BY <1>1, <1>2, Zenon
  <1>4. [r EXCEPT !.at = "answered", !.status = status, !.order = id] = g3
    BY <1>2, <1>3, Zenon
  <1>5. request' = [request EXCEPT ![s] =
           [r EXCEPT !.at = "answered", !.status = status, !.order = id]]
    BY DEF TypeOK, Answered
  <1> QED  BY <1>4, <1>5, Zenon

\* The request is rejected, or goes on to one of the two insertions.
LEMMA ReceiveStep ==
    ASSUME TypeOK, NEW s \in Slots, Receive(s)
    PROVE  LET r == request[s]
           IN  /\ r \in Requests /\ r.at = "sent"
               /\ request' = [request EXCEPT ![s] =
                    IF r.payload \notin Valid
                    THEN Goes(r, "answered", r.tx, 0, 400)
                    ELSE Goes(r, IF r.key = NoKey THEN "received"
                                                  ELSE "reserve",
                              r.tx, r.order, r.status)]
  <1>1. request[s] \in Requests
    BY RequestTyped DEF Receive, At
  <1> QED  BY <1>1 DEF TypeOK, Receive, At, Answered, Goes, Requests

\* Its row of order_requests is written, or found.
LEMMA ReserveStep ==
    ASSUME TypeOK, NEW s \in Slots, Reserve(s)
    PROVE  LET r == request[s]
           IN  /\ r \in Requests /\ r.at = "reserve"
               /\ request' = [request EXCEPT ![s] =
                    IF rows[r.key] = NoRow
                    THEN Goes(r, "insert", "open", r.order, r.status)
                    ELSE Goes(r, "lookup", r.tx, r.order, r.status)]
  <1>1. request[s] \in Requests
    BY RequestTyped DEF Reserve, At
  <1>2. CASE rows[request[s].key] = NoRow
    BY <1>1, <1>2 DEF TypeOK, Reserve, At, Goes, Requests
  <1>3. CASE rows[request[s].key] # NoRow
    BY <1>1, <1>3 DEF TypeOK, Reserve, At, Goes, Requests
  <1> QED  BY <1>2, <1>3

\* The row found is replayed, in conflict, or incomplete.
LEMMA LookupStep ==
    ASSUME TypeOK, NEW s \in Slots, Lookup(s)
    PROVE  LET r == request[s]
               row == rows[r.key]
           IN  /\ r \in Requests /\ r.at = "lookup"
               /\ request' = [request EXCEPT ![s] =
                    IF row.order = 0 THEN Goes(r, "answered", r.tx, 0, 503)
                    ELSE IF row.payload = r.payload
                    THEN Goes(r, "answered", r.tx, row.order, 201)
                    ELSE Goes(r, "answered", r.tx, 0, 409)]
  <1>1. request[s] \in Requests
    BY RequestTyped DEF Lookup, At
  <1> QED  BY <1>1 DEF TypeOK, Lookup, At, Answered, Goes, Requests

\* The order takes the next number, and COMMIT is sent.
LEMMA InsertStep ==
    ASSUME TypeOK, NEW s \in Slots, Insert(s)
    PROVE  LET r == request[s]
           IN  /\ r \in Requests
               /\ \/ r.at = "received"
                  \/ r.at = "insert" /\ r.tx = "open"
               /\ request' = [request EXCEPT ![s] =
                    Goes(r, "commit", "committing", sequence, r.status)]
  <1>1. request[s] \in Requests
    BY RequestTyped DEF Insert, At
  <1> QED  BY <1>1 DEF TypeOK, Insert, At, Goes, Requests

\* The order is confirmed.
LEMMA CommittedStep ==
    ASSUME TypeOK, NEW s \in Slots, Committed(s)
    PROVE  LET r == request[s]
           IN  /\ r \in Requests /\ r.at = "commit" /\ r.tx = "committed"
               /\ request' = [request EXCEPT ![s] =
                    Goes(r, "answered", r.tx, r.order, 201)]
  <1>1. request[s] \in Requests
    BY RequestTyped DEF Committed, At
  <1> QED  BY <1>1, AnsweredStep DEF Committed, At

\* The handler fails; an open transaction stays as it is.
LEMMA GiveUpOnDatabaseStep ==
    ASSUME TypeOK, NEW s \in Slots, GiveUpOnDatabase(s)
    PROVE  LET r == request[s]
           IN  /\ r \in Requests /\ r.at \in Working
               /\ request' = [request EXCEPT ![s] =
                    IF Unresolved(r)
                    THEN Goes(r, "answered", r.tx, r.order, 503)
                    ELSE Goes(r, "answered", "none", 0, 503)]
  <1>1. request[s] \in Requests
    BY RequestTyped DEF GiveUpOnDatabase, Working
  <1> DEFINE r  == request[s]
             g1 == Goes(r, "answered", r.tx, r.order, r.status)
             g2 == Goes(r, "answered", r.tx, r.order, 503)
             g3 == Goes(r, "answered", "none", r.order, 503)
             g4 == Goes(r, "answered", "none", 0, 503)
  <1>2. [r EXCEPT !.at = "answered"] = g1
    BY <1>1 DEF Goes, Requests
  <1>3. /\ [g1 EXCEPT !.status = 503] = g2
        /\ [g2 EXCEPT !.tx = "none"] = g3
        /\ [g3 EXCEPT !.order = 0] = g4
    BY DEF Goes
  <1>4. [r EXCEPT !.at = "answered", !.status = 503] = g2
    BY <1>2, <1>3, Zenon
  <1>5. [r EXCEPT !.at = "answered", !.status = 503, !.tx = "none"] = g3
    BY <1>3, <1>4, Zenon
  <1>6. [r EXCEPT !.at = "answered", !.status = 503, !.tx = "none",
                  !.order = 0] = g4
    BY <1>3, <1>5, Zenon
  <1>7. request' = [request EXCEPT ![s] =
           IF Unresolved(r) THEN [r EXCEPT !.at = "answered", !.status = 503]
           ELSE [r EXCEPT !.at = "answered", !.status = 503, !.tx = "none",
                          !.order = 0]]
    BY DEF TypeOK, GiveUpOnDatabase
  <1>8. r.at \in Working
    BY DEF GiveUpOnDatabase
  <1> QED  BY <1>1, <1>4, <1>6, <1>7, <1>8, Zenon

\* The response is taken; the slot stays only for its transaction.
LEMMA DeliverStep ==
    ASSUME TypeOK, NEW s \in Slots, Deliver(s)
    PROVE  LET r == request[s]
           IN  /\ r \in Requests /\ r.at = "answered"
               /\ request' = [request EXCEPT ![s] =
                    IF Unresolved(r)
                    THEN Goes(r, "closed", r.tx, r.order, r.status)
                    ELSE NoRequest]
  <1>1. request[s] \in Requests
    BY RequestTyped DEF Deliver
  <1>2. Settled([request[s] EXCEPT !.at = "closed"]) =
           IF Unresolved(request[s])
           THEN Goes(request[s], "closed", request[s].tx, request[s].order,
                     request[s].status)
           ELSE NoRequest
    BY <1>1 DEF Settled, Unresolved, Goes, Requests
  <1> QED  BY <1>1, <1>2 DEF TypeOK, Deliver

\* The end of a transaction: a running handler learns it, a closed slot is
\* free.
LEMMA EndTxStep ==
    ASSUME TypeOK, NEW s \in Slots, Unresolved(request[s]), NEW outcome,
           EndTx(s, outcome)
    PROVE  LET r == request[s]
           IN  /\ r \in Requests
               /\ request' = [request EXCEPT ![s] =
                    IF r.at \in Working
                    THEN Goes(r, r.at, outcome, r.order, r.status)
                    ELSE IF r.at = "closed" THEN NoRequest
                    ELSE Goes(r, r.at, "none", 0, r.status)]
  <1>1. request[s] \in Requests
    BY RequestTyped DEF Unresolved
  <1> DEFINE r  == request[s]
             g1 == Goes(r, r.at, "none", r.order, r.status)
             g2 == Goes(r, r.at, "none", 0, r.status)
  <1>4. [r EXCEPT !.tx = "none"] = g1 /\ [g1 EXCEPT !.order = 0] = g2
    BY <1>1 DEF Goes, Requests
  <1>2. [r EXCEPT !.tx = "none", !.order = 0] = g2
    BY <1>4, Zenon
  <1>3. [request[s] EXCEPT !.tx = outcome] =
           Goes(request[s], request[s].at, outcome, request[s].order,
                request[s].status)
    BY <1>1 DEF Goes, Requests
  <1>5. request' = [request EXCEPT ![s] =
           IF r.at \in Working THEN [r EXCEPT !.tx = outcome]
           ELSE Settled([r EXCEPT !.tx = "none", !.order = 0])]
    BY DEF TypeOK, EndTx
  <1>6. Settled(g2) = IF r.at = "closed" THEN NoRequest ELSE g2
    BY DEF Settled, Unresolved, Goes
  <1> QED  BY <1>1, <1>2, <1>3, <1>5, <1>6, Zenon

-----------------------------------------------------------------------------
(* What the steps of a page do to its form.                                *)

\* A form, field by field.
Filled(form, pending, loading, shown, order, intent) ==
    [form |-> form, pending |-> pending, loading |-> loading, shown |-> shown,
     order |-> order, intent |-> intent]

\* Its fields.
LEMMA FilledFields ==
    ASSUME NEW form, NEW pending, NEW loading, NEW shown, NEW order, NEW intent
    PROVE  LET f == Filled(form, pending, loading, shown, order, intent)
           IN  /\ f.form = form /\ f.pending = pending /\ f.loading = loading
               /\ f.shown = shown /\ f.order = order /\ f.intent = intent
  BY DEF Filled

\* A submission; the key and what it is for are kept for a retry.
LEMMA SubmitForm ==
    ASSUME NEW f \in Forms, NEW pending
    PROVE  [f EXCEPT !.pending = pending, !.loading = TRUE, !.shown = "none",
                     !.order = 0] =
              Filled(f.form, pending, TRUE, "none", 0, f.intent)
  <1> DEFINE set == TRUE
             f1 == Filled(f.form, pending, f.loading, f.shown, f.order, f.intent)
             f2 == Filled(f.form, pending, set, f.shown, f.order, f.intent)
             f3 == Filled(f.form, pending, set, "none", f.order, f.intent)
             f4 == Filled(f.form, pending, set, "none", 0, f.intent)
  <1> HIDE DEF set
  <1>1. [f EXCEPT !.pending = pending] = f1
    BY DEF Filled, Forms
  <1>2. /\ [f1 EXCEPT !.loading = set] = f2
        /\ [f2 EXCEPT !.shown = "none"] = f3
        /\ [f3 EXCEPT !.order = 0] = f4
    BY DEF Filled
  <1>3. [f EXCEPT !.pending = pending, !.loading = set] = f2
    BY <1>1, <1>2, Zenon
  <1>4. [f EXCEPT !.pending = pending, !.loading = set, !.shown = "none"] = f3
    BY <1>2, <1>3, Zenon
  <1>5. [f EXCEPT !.pending = pending, !.loading = set, !.shown = "none",
                  !.order = 0] = f4
    BY <1>2, <1>4, Zenon
  <1> QED  BY <1>5 DEF set

\* Another content; the pending key is dropped.
LEMMA EditForm ==
    ASSUME NEW f \in Forms, NEW form, NEW intent
    PROVE  [f EXCEPT !.form = form, !.pending = NoPending, !.intent = intent] =
              Filled(form, NoPending, f.loading, f.shown, f.order, intent)
  <1> DEFINE f1 == Filled(form, f.pending, f.loading, f.shown, f.order, f.intent)
             f2 == Filled(form, NoPending, f.loading, f.shown, f.order, f.intent)
             f3 == Filled(form, NoPending, f.loading, f.shown, f.order, intent)
  <1>1. [f EXCEPT !.form = form] = f1
    BY DEF Filled, Forms
  <1>2. [f1 EXCEPT !.pending = NoPending] = f2 /\ [f2 EXCEPT !.intent = intent] = f3
    BY DEF Filled
  <1>3. [f EXCEPT !.form = form, !.pending = NoPending] = f2
    BY <1>1, <1>2, Zenon
  <1> QED  BY <1>2, <1>3, Zenon

\* A failed attempt that keeps its key.
LEMMA FailedForm ==
    ASSUME NEW f \in Forms
    PROVE  [f EXCEPT !.loading = FALSE, !.shown = "failed"] =
              Filled(f.form, f.pending, FALSE, "failed", f.order, f.intent)
  <1> DEFINE set == FALSE
             f1 == Filled(f.form, f.pending, set, f.shown, f.order, f.intent)
             f2 == Filled(f.form, f.pending, set, "failed", f.order, f.intent)
  <1> HIDE DEF set
  <1>1. [f EXCEPT !.loading = set] = f1
    BY DEF Filled, Forms
  <1>2. [f1 EXCEPT !.shown = "failed"] = f2
    BY DEF Filled
  <1>5. [f EXCEPT !.loading = set, !.shown = "failed"] = f2
    BY <1>1, <1>2, Zenon
  <1> QED  BY <1>5 DEF set

\* The three ways an answer is taken.
LEMMA ShownForm ==
    ASSUME NEW f \in Forms, NEW r
    PROVE  Shown(f, r) =
             IF r.status = 201
             THEN Filled(Default, NoPending, FALSE, "created", r.order,
                         f.intent + 1)
             ELSE IF r.status \in {400, 409}
             THEN Filled(f.form, NoPending, FALSE, "failed", f.order,
                         f.intent + 1)
             ELSE Filled(f.form, f.pending, FALSE, "failed", f.order, f.intent)
  <1> DEFINE set == FALSE
             f1 == Filled(f.form, NoPending, f.loading, f.shown, f.order, f.intent)
             f2 == Filled(f.form, NoPending, set, f.shown, f.order, f.intent)
             c3 == Filled(Default, NoPending, set, f.shown, f.order, f.intent)
             c4 == Filled(Default, NoPending, set, "created", f.order, f.intent)
             c5 == Filled(Default, NoPending, set, "created", r.order, f.intent)
             c6 == Filled(Default, NoPending, set, "created", r.order,
                          f.intent + 1)
             e3 == Filled(f.form, NoPending, set, "failed", f.order, f.intent)
             e4 == Filled(f.form, NoPending, set, "failed", f.order,
                          f.intent + 1)
             next == f.intent + 1
  <1> HIDE DEF set
  <1>1. [f EXCEPT !.pending = NoPending] = f1
    BY DEF Filled, Forms
  <1>2. /\ [f1 EXCEPT !.loading = set] = f2
        /\ [f2 EXCEPT !.form = Default] = c3
        /\ [c3 EXCEPT !.shown = "created"] = c4
        /\ [c4 EXCEPT !.order = r.order] = c5
        /\ [c5 EXCEPT !.intent = next] = c6
        /\ [f2 EXCEPT !.shown = "failed"] = e3
        /\ [e3 EXCEPT !.intent = next] = e4
    BY DEF Filled
  <1>3. [f EXCEPT !.pending = NoPending, !.loading = set] = f2
    BY <1>1, <1>2, Zenon
  <1>4. [f EXCEPT !.pending = NoPending, !.loading = set,
                  !.form = Default] = c3
    BY <1>2, <1>3, Zenon
  <1>5. [f EXCEPT !.pending = NoPending, !.loading = set,
                  !.form = Default, !.shown = "created"] = c4
    BY <1>2, <1>4, Zenon
  <1>6. [f EXCEPT !.pending = NoPending, !.loading = set,
                  !.form = Default, !.shown = "created",
                  !.order = r.order] = c5
    BY <1>2, <1>5, Zenon
  <1>7. [f EXCEPT !.pending = NoPending, !.loading = set,
                  !.form = Default, !.shown = "created",
                  !.order = r.order, !.intent = next] = c6
    BY <1>2, <1>6, Zenon
  <1>8. [f EXCEPT !.pending = NoPending, !.loading = set,
                  !.shown = "failed"] = e3
    BY <1>2, <1>3, Zenon
  <1>9. [f EXCEPT !.pending = NoPending, !.loading = set,
                  !.shown = "failed", !.intent = next] = e4
    BY <1>2, <1>8, Zenon
  <1>10. CASE r.status = 201
    BY <1>7, <1>10 DEF Shown, set
  <1>11. CASE r.status \in {400, 409}
    <2>1. Shown(f, r) = [f EXCEPT !.pending = NoPending, !.loading = FALSE,
                                  !.shown = "failed", !.intent = next]
      BY <1>11 DEF Shown
    <2>2. Shown(f, r) = e4
      BY <1>9, <2>1, Zenon DEF set
    <2>3. r.status # 201
      BY <1>11
    <2> QED  BY <1>11, <2>2, <2>3, Zenon DEF set
  <1>12. CASE r.status \notin {201, 400, 409}
    <2>1. [f EXCEPT !.loading = FALSE, !.shown = "failed"] =
             Filled(f.form, f.pending, FALSE, "failed", f.order, f.intent)
      BY FailedForm
    <2> QED  BY <1>12, <2>1 DEF Shown
  <1> QED  BY <1>10, <1>11, <1>12

\* createOrder sends the form with a key, which becomes the pending one.
LEMMA SubmitStep ==
    ASSUME TypeOK, NEW p \in Pages, Submit(p)
    PROVE  LET f == page[p]
           IN  /\ f \in Forms /\ f.form \in Valid /\ ~f.loading
               /\ \E s \in Slots, key \in PendingKeys(p) :
                    /\ Send(s, p, <<p, f.intent>>, key, f.form)
                    /\ page' = [page EXCEPT ![p] =
                         Filled(f.form, [key |-> key, fingerprint |-> f.form],
                                TRUE, "none", 0, f.intent)]
  <1> DEFINE f == page[p]
  <1>1. f \in Forms
    BY DEF TypeOK
  <1>2. PICK s \in Slots, key \in PendingKeys(p) :
          /\ Send(s, p, <<p, f.intent>>, key, f.form)
          /\ page' = [page EXCEPT ![p] =
               [f EXCEPT !.pending = [key |-> key, fingerprint |-> f.form],
                         !.loading = TRUE, !.shown = "none", !.order = 0]]
    BY DEF Submit, TypeOK
  <1>3. [f EXCEPT !.pending = [key |-> key, fingerprint |-> f.form],
                  !.loading = TRUE, !.shown = "none", !.order = 0] =
           Filled(f.form, [key |-> key, fingerprint |-> f.form], TRUE, "none",
                  0, f.intent)
    BY <1>1, SubmitForm
  <1>4. page' = [page EXCEPT ![p] =
           Filled(f.form, [key |-> key, fingerprint |-> f.form],
                  TRUE, "none", 0, f.intent)]
    BY <1>2, <1>3, Zenon
  <1> QED  BY <1>1, <1>2, <1>4 DEF Submit

\* handleCreateInput.
LEMMA EditStep ==
    ASSUME TypeOK, NEW p \in Pages, Edit(p)
    PROVE  LET f == page[p]
           IN  /\ f \in Forms /\ ~f.loading
               /\ \E form \in Payloads :
                    page' = [page EXCEPT ![p] =
                      Filled(form, NoPending, f.loading, f.shown, f.order,
                             IF f.pending = NoPending THEN f.intent
                                                      ELSE f.intent + 1)]
  <1> DEFINE f == page[p]
             next == IF f.pending = NoPending THEN f.intent ELSE f.intent + 1
  <1>1. f \in Forms
    BY DEF TypeOK
  <1>2. PICK form \in Payloads :
          page' = [page EXCEPT ![p] =
            [f EXCEPT !.form = form, !.pending = NoPending, !.intent = next]]
    BY DEF Edit, TypeOK
  <1>3. [f EXCEPT !.form = form, !.pending = NoPending, !.intent = next] =
           Filled(form, NoPending, f.loading, f.shown, f.order, next)
    BY <1>1, EditForm
  <1>4. page' = [page EXCEPT ![p] =
           Filled(form, NoPending, f.loading, f.shown, f.order, next)]
    BY <1>2, <1>3, Zenon
  <1> QED  BY <1>1, <1>4 DEF Edit

\* The attempt failed without an answer.
LEMMA GiveUpStep ==
    ASSUME TypeOK, NEW p \in Pages, GiveUp(p)
    PROVE  LET f == page[p]
           IN  /\ f \in Forms /\ f.loading
               /\ page' = [page EXCEPT ![p] =
                    Filled(f.form, f.pending, FALSE, "failed", f.order,
                           f.intent)]
  <1> DEFINE f == page[p]
  <1>1. f \in Forms
    BY DEF TypeOK
  <1>2. page' = [page EXCEPT ![p] = [f EXCEPT !.loading = FALSE,
                                              !.shown = "failed"]]
    BY DEF GiveUp, TypeOK
  <1>3. [f EXCEPT !.loading = FALSE, !.shown = "failed"] =
           Filled(f.form, f.pending, FALSE, "failed", f.order, f.intent)
    BY <1>1, FailedForm
  <1> QED  BY <1>1, <1>2, <1>3, Zenon DEF GiveUp

\* Nothing is left of the form.
LEMMA ReloadStep ==
    ASSUME TypeOK, NEW p \in Pages, Reload(p)
    PROVE  LET f == page[p]
           IN  /\ f \in Forms /\ f.pending # NoPending
               /\ page' = [page EXCEPT ![p] =
                    Filled(Default, NoPending, FALSE, "none", 0, f.intent + 1)]
  BY DEF TypeOK, Reload, NewPage, Filled

-----------------------------------------------------------------------------
(* What those steps have in common.                                        *)

\* The steps of a request once it was sent.
SlotStep(s) == Handle(s) \/ Deliver(s) \/ DbCommits(s) \/ DbRollsBack(s)

\* Whose it is, and what it asks for.
Same(q, r) == /\ q.from = r.from /\ q.intent = r.intent
              /\ q.key = r.key /\ q.payload = r.payload

\* A step of a slot keeps what was asked for, or frees the slot, and does not
\* reopen a closed one; the other slots stay as they are.
LEMMA SlotFrame ==
    ASSUME TypeOK, HandlersMatch, NEW s \in Slots, SlotStep(s)
    PROVE  /\ request[s] \in Requests
           /\ request' \in [Slots -> Requests \cup {NoRequest}]
           /\ \A t \in Slots : t # s => request'[t] = request[t]
           /\ \/ request'[s] = NoRequest
              \/ /\ request'[s] \in Requests
                 /\ Same(request'[s], request[s])
                 /\ request'[s].at # "closed" => request[s].at # "closed"
  <1> DEFINE Result(q) ==
        \/ q = NoRequest
        \/ /\ q \in Requests
           /\ Same(q, request[s])
           /\ q.at # "closed" => request[s].at # "closed"
  <1>1. SUFFICES /\ request[s] \in Requests
                 /\ \E q : request' = [request EXCEPT ![s] = q] /\ Result(q)
    BY DEF TypeOK
  <1>2. ASSUME request[s] \in Requests, NEW at \in Points, NEW tx \in TxStates,
               NEW order \in Nat, NEW status \in {0, 201, 400, 409, 503},
               at # "closed" => request[s].at # "closed"
        PROVE  Result(Goes(request[s], at, tx, order, status))
    <2> DEFINE g == Goes(request[s], at, tx, order, status)
    <2>1. g \in Requests
      BY <1>2, GoesTyped
    <2>2. Same(g, request[s]) /\ g.at = at
      BY GoesFields DEF Same
    <2> QED  BY <1>2, <2>1, <2>2
  <1>3. ASSUME request[s] \in Requests
        PROVE  /\ request[s].at \in Points /\ request[s].tx \in TxStates
               /\ request[s].order \in Nat
               /\ request[s].status \in {0, 201, 400, 409, 503}
               /\ request[s].key \in Keys \cup {NoKey}
    BY <1>3 DEF Requests
  <1>14. /\ \A point \in Working \cup {"answered", "closed"} : point \in Points
         /\ {"none", "open", "committing", "committed", "aborted"} \subseteq TxStates
    BY DEF Points, TxStates
  <1> HIDE DEF Result
  <1>4. CASE Receive(s)
    BY <1>2, <1>3, <1>14, <1>4, ReceiveStep DEF Working
  <1>5. CASE Reserve(s)
    BY <1>2, <1>3, <1>14, <1>5, ReserveStep DEF Working
  <1>6. CASE Lookup(s)
    <2>1. request[s] \in Requests /\ request[s].at = "lookup"
      BY <1>6, LookupStep
    <2> DEFINE row == rows[request[s].key]
    <2>2. request[s].key \in Keys
      BY <1>3, <2>1, FreeSlots DEF HandlersMatch, Fits
    <2>3. row.order \in Nat
      BY <2>2 DEF TypeOK, NoRow
    <2> QED  BY <1>2, <1>3, <1>14, <1>6, <2>1, <2>3, LookupStep DEF Working
  <1>7. CASE Insert(s)
    BY <1>2, <1>3, <1>14, <1>7, InsertStep DEF Working, TypeOK
  <1>8. CASE Committed(s)
    BY <1>2, <1>3, <1>14, <1>8, CommittedStep DEF Working
  <1>9. CASE GiveUpOnDatabase(s)
    BY <1>2, <1>3, <1>14, <1>9, GiveUpOnDatabaseStep DEF Working
  <1>10. CASE Deliver(s)
    <2>1. Result(NoRequest)
      BY DEF Result
    <2> DEFINE r == request[s]
    <2>2. r \in Requests
      BY <1>10, DeliverStep
    <2>3. "closed" \in Points
      BY DEF Points
    <2>4. Result(Goes(r, "closed", r.tx, r.order, r.status))
      BY <1>2, <1>3, <2>2, <2>3
    <2> QED  BY <1>10, <2>1, <2>2, <2>4, DeliverStep
  <1>11. ASSUME NEW outcome \in {"committed", "aborted"},
                Unresolved(request[s]), EndTx(s, outcome)
         PROVE  /\ request[s] \in Requests
                /\ \E q : request' = [request EXCEPT ![s] = q] /\ Result(q)
    <2>1. Result(NoRequest)
      BY DEF Result
    <2>2. request[s] \in Requests
      BY <1>11, EndTxStep
    <2> DEFINE r == request[s]
    <2>3. CASE r.at \in Working
      <3>1. Result(Goes(r, r.at, outcome, r.order, r.status))
        BY <1>2, <1>3, <1>14, <1>11, <2>2
      <3> QED  BY <1>11, <2>2, <2>3, <3>1, EndTxStep
    <2>4. CASE r.at = "closed"
      BY <1>11, <2>1, <2>2, <2>4, EndTxStep DEF Working
    <2>5. CASE r.at \notin Working \cup {"closed"}
      <3>1. Result(Goes(r, r.at, "none", 0, r.status))
        BY <1>2, <1>3, <1>14, <2>2
      <3> QED  BY <1>11, <2>2, <2>5, <3>1, EndTxStep
    <2> QED  BY <2>3, <2>4, <2>5
  <1>12. CASE DbCommits(s)
    BY <1>11, <1>12 DEF DbCommits, Unresolved
  <1>13. CASE DbRollsBack(s)
    BY <1>11, <1>13 DEF DbRollsBack
  <1> QED  BY <1>4, <1>5, <1>6, <1>7, <1>8, <1>9, <1>10, <1>12, <1>13
           DEF SlotStep, Handle
\* A slot step keeps the types.
LEMMA SlotTypes ==
    ASSUME IInv, NEW s \in Slots, SlotStep(s)
    PROVE  TypeOK'
  <1> USE DEF IInv
  <1>1. request' \in [Slots -> Requests \cup {NoRequest}]
    BY SlotFrame
  <1>2. CASE Handle(s)
    <2>1. UNCHANGED <<page, rows, orders, sent>> /\ sequence' \in Nat
      BY <1>2 DEF TypeOK, Handle, Receive, Reserve, Lookup, Insert, Committed,
                  GiveUpOnDatabase, database
    <2> QED  BY <1>1, <2>1 DEF TypeOK
  <1>3. CASE Deliver(s)
    <2>1. UNCHANGED <<rows, orders, sequence, sent>>
      BY <1>3 DEF Deliver, database
    <2> DEFINE r == request[s]
               f == page[r.from]
    <2>2. CASE r.from \in Pages
      <3>1. page' = [page EXCEPT ![r.from] = Shown(f, r)]
        BY <1>3, <2>2 DEF Deliver, TypeOK
      <3>2. f \in Forms /\ r.order \in Nat
        BY <1>3, <2>2, DeliverStep DEF TypeOK, Requests
      <3>3. /\ Filled(Default, NoPending, FALSE, "created", r.order,
                      f.intent + 1) \in Forms
            /\ Filled(f.form, NoPending, FALSE, "failed", f.order,
                      f.intent + 1) \in Forms
            /\ Filled(f.form, f.pending, FALSE, "failed", f.order, f.intent)
                  \in Forms
        BY <3>2, KeysAssumption DEF Filled, Forms
      <3>4. Shown(f, r) \in Forms
        BY <3>2, <3>3, ShownForm
      <3> QED  BY <1>1, <2>1, <3>1, <3>4 DEF TypeOK
    <2>3. CASE r.from \notin Pages
      BY <1>1, <1>3, <2>1, <2>3 DEF Deliver, TypeOK
    <2> QED  BY <2>2, <2>3
  <1>4. CASE DbCommits(s)
    <2> DEFINE r == request[s]
    <2>1. r \in Requests /\ r.payload \in Payloads /\ r.order \in Nat
          /\ r.key \in Keys \cup {NoKey}
          /\ r.intent \in (Pages \cup {Nobody}) \X Nat
      BY <1>4, SlotFrame DEF SlotStep, Requests
    <2>2. OrderOf(r) \in Orders
      BY <2>1 DEF OrderOf, Orders
    <2>3. RowOf(r) \in [payload : Payloads, order : Nat]
      BY <2>1 DEF RowOf
    <2> QED  BY <1>1, <1>4, <2>2, <2>3 DEF TypeOK, DbCommits
  <1>5. CASE DbRollsBack(s)
    BY <1>1, <1>5 DEF TypeOK, DbRollsBack, database
  <1> QED  BY <1>2, <1>3, <1>4, <1>5 DEF SlotStep
\* The steps of a page and of other callers keep the types.
LEMMA ClientTypes ==
    ASSUME TypeOK
    PROVE  /\ \A p \in Pages : Submit(p) \/ Edit(p) \/ GiveUp(p) \/ Reload(p) =>
                 TypeOK'
           /\ \A s \in Slots : CallerSends(s) => TypeOK'
           /\ UpdateQuantity => TypeOK'
  <1>1. ASSUME NEW p \in Pages, Submit(p)
        PROVE  TypeOK'
    <2> DEFINE f == page[p]
    <2>1. PICK s \in Slots, key \in PendingKeys(p) :
            /\ Send(s, p, <<p, f.intent>>, key, f.form)
            /\ page' = [page EXCEPT ![p] =
                 Filled(f.form, [key |-> key, fingerprint |-> f.form],
                        TRUE, "none", 0, f.intent)]
      BY <1>1, SubmitStep
    <2>2. f.form \in Payloads /\ f.intent \in Nat
      BY DEF TypeOK, Forms
    <2>3. key \in PageKeys
      BY PendingKeysTyped
    <2>4. Filled(f.form, [key |-> key, fingerprint |-> f.form], TRUE, "none",
                 0, f.intent) \in Forms
      BY <2>2, <2>3 DEF Filled, Forms
    <2>5. /\ request' \in [Slots -> Requests \cup {NoRequest}]
          /\ sent' \in 0..MaxRequests
      BY <2>1, <2>2, <2>3, SendTyped DEF Keys
    <2>6. UNCHANGED database
      BY <1>1 DEF Submit
    <2> QED  BY <2>1, <2>4, <2>5, <2>6 DEF TypeOK, database
  <1>2. ASSUME NEW p \in Pages, Edit(p)
        PROVE  TypeOK'
    <2> DEFINE f == page[p]
    <2>1. PICK form \in Payloads :
            page' = [page EXCEPT ![p] =
              Filled(form, NoPending, f.loading, f.shown, f.order,
                     IF f.pending = NoPending THEN f.intent ELSE f.intent + 1)]
      BY <1>2, EditStep
    <2>2. Filled(form, NoPending, f.loading, f.shown, f.order,
                 IF f.pending = NoPending THEN f.intent ELSE f.intent + 1)
             \in Forms
      <3>1. f \in Forms
        BY DEF TypeOK
      <3> QED  BY <3>1 DEF Filled, Forms
    <2> QED  BY <1>2, <2>1, <2>2 DEF TypeOK, Edit, database
  <1>3. ASSUME NEW p \in Pages, GiveUp(p)
        PROVE  TypeOK'
    <2> DEFINE f == page[p]
    <2>1. Filled(f.form, f.pending, FALSE, "failed", f.order, f.intent) \in Forms
      <3>1. f \in Forms
        BY DEF TypeOK
      <3> QED  BY <3>1 DEF Filled, Forms
    <2>2. page' \in [Pages -> Forms]
      BY <1>3, <2>1, GiveUpStep DEF TypeOK
    <2>3. request' \in [Slots -> Requests \cup {NoRequest}]
      BY <1>3, DetachedTyped DEF GiveUp
    <2> QED  BY <1>3, <2>2, <2>3 DEF TypeOK, GiveUp, database
  <1>4. ASSUME NEW p \in Pages, Reload(p)
        PROVE  TypeOK'
    <2> DEFINE f == page[p]
    <2>1. Filled(Default, NoPending, FALSE, "none", 0, f.intent + 1) \in Forms
      <3>1. f \in Forms
        BY DEF TypeOK
      <3> QED  BY <3>1, KeysAssumption DEF Filled, Forms
    <2>2. page' \in [Pages -> Forms]
      BY <1>4, <2>1, ReloadStep DEF TypeOK
    <2>3. request' \in [Slots -> Requests \cup {NoRequest}]
      BY <1>4, DetachedTyped DEF Reload
    <2> QED  BY <1>4, <2>2, <2>3 DEF TypeOK, Reload, database
  <1>5. ASSUME NEW s \in Slots, CallerSends(s)
        PROVE  TypeOK'
    <2>1. PICK key \in CallerKeys \cup {NoKey}, payload \in Payloads :
            Send(s, Nobody, <<Nobody, 0>>, key, payload)
      BY <1>5 DEF CallerSends
    <2>2. /\ request' \in [Slots -> Requests \cup {NoRequest}]
          /\ sent' \in 0..MaxRequests
      BY <2>1, SendTyped DEF Keys
    <2> QED  BY <1>5, <2>2 DEF TypeOK, CallerSends, database
  <1>6. ASSUME UpdateQuantity
        PROVE  TypeOK'
    <2>1. PICK o \in orders, payload \in Valid :
            orders' = (orders \ {o}) \cup {[o EXCEPT !.payload = payload]}
      BY <1>6 DEF UpdateQuantity
    <2>2. [o EXCEPT !.payload = payload] \in Orders
      BY KeysAssumption DEF TypeOK, Orders
    <2> QED  BY <1>6, <2>1, <2>2 DEF TypeOK, UpdateQuantity
  <1> QED  BY <1>1, <1>2, <1>3, <1>4, <1>5, <1>6
-----------------------------------------------------------------------------
(* What the other steps do to the slots.                                   *)

\* A slot whose handler and transaction do nothing: it may lose its page, or
\* be lost before it is received.
Loose(q, r) ==
    \/ q = NoRequest /\ r.at = "sent"
    \/ /\ q = NoRequest <=> r = NoRequest
       /\ q.from \in {r.from, Nobody}
       /\ q.intent = r.intent /\ q.key = r.key /\ q.payload = r.payload
       /\ q.at = r.at /\ q.tx = r.tx /\ q.order = r.order
       /\ q.status = r.status

\* No handler and no transaction does anything.
Quiet == \A s \in Slots : Loose(request'[s], request[s])

\* A request is sent from a free slot.
Sends(s, from, intent, key) ==
    /\ request[s] = NoRequest
    /\ \A t \in Slots : t # s => request'[t] = request[t]
    /\ request'[s] \in Requests
    /\ request'[s].at = "sent" /\ request'[s].tx = "none"
    /\ request'[s].order = 0 /\ request'[s].status = 0
    /\ request'[s].from = from /\ request'[s].intent = intent
    /\ request'[s].key = key

\* Requests of a page nobody waits for any more.
LEMMA DetachedFrame ==
    ASSUME TypeOK, NEW p \in Pages, NEW lost \in BOOLEAN,
           request' = Detached(p, lost)
    PROVE  /\ Quiet
           /\ \A s \in Slots : request'[s].from # p
           /\ \A s \in Slots : request[s].from # p => request'[s] = request[s]
  <1>1. SUFFICES ASSUME NEW s \in Slots
                 PROVE  Loose(request'[s], request[s]) /\ request'[s].from # p
    BY DEF Quiet, Detached
  <1> DEFINE r == request[s]
             q == request'[s]
  <1>2. q = IF r.from # p THEN r
            ELSE IF lost /\ r.at = "sent" THEN NoRequest
            ELSE [r EXCEPT !.from = Nobody]
    BY DEF Detached
  <1>3. CASE r.from # p
    BY <1>2, <1>3 DEF Loose
  <1>4. CASE r.from = p
    <2>1. p # Nobody /\ r \in Requests
      BY <1>4, FreeSlots, KeysAssumption DEF TypeOK
    <2>2. CASE lost /\ r.at = "sent"
      BY <1>2, <1>4, <2>1, <2>2, FreeSlots DEF Loose
    <2>3. CASE ~(lost /\ r.at = "sent")
      <3>1. q = [r EXCEPT !.from = Nobody]
        BY <1>2, <1>4, <2>3
      <3>2. q \in Requests /\ q.from = Nobody /\ q.intent = r.intent
            /\ q.key = r.key /\ q.payload = r.payload /\ q.at = r.at
            /\ q.tx = r.tx /\ q.order = r.order /\ q.status = r.status
        BY <2>1, <3>1 DEF Requests
      <3> QED  BY <2>1, <3>2, FreeSlots DEF Loose
    <2> QED  BY <2>2, <2>3
  <1> QED  BY <1>3, <1>4

\* What Send does, field by field.
LEMMA SendFrame ==
    ASSUME TypeOK, NEW s \in Slots, NEW from \in Pages \cup {Nobody},
           NEW intent \in (Pages \cup {Nobody}) \X Nat,
           NEW key \in Keys \cup {NoKey}, NEW payload \in Payloads,
           Send(s, from, intent, key, payload)
    PROVE  Sends(s, from, intent, key)
  <1> DEFINE q == [from |-> from, intent |-> intent, key |-> key,
                   payload |-> payload, at |-> "sent", tx |-> "none",
                   order |-> 0, status |-> 0]
  <1>1. q \in Requests
    BY DEF Requests, Points, TxStates
  <1>2. request[s] = NoRequest /\ request' = [request EXCEPT ![s] = q]
    BY DEF Send
  <1>3. request'[s] = q /\ \A t \in Slots : t # s => request'[t] = request[t]
    BY <1>2 DEF TypeOK
  <1> QED  BY <1>1, <1>2, <1>3 DEF Sends

\* Orders whose quantity has changed at most.
Requantified ==
    /\ \A o \in orders : \E n \in orders' :
          n.id = o.id /\ n.key = o.key /\ n.asked = o.asked /\ n.intent = o.intent
    /\ \A n \in orders' : \E o \in orders :
          n.id = o.id /\ n.key = o.key /\ n.asked = o.asked /\ n.intent = o.intent

\* A quantity is all that changes.
LEMMA UpdateQuantityFrame ==
    ASSUME TypeOK, UpdateQuantity
    PROVE  /\ Requantified
           /\ (\A a, b \in orders : a.id = b.id => a = b) =>
                 \A a, b \in orders' : a.id = b.id => a = b
  <1>1. PICK o \in orders, payload \in Valid :
          orders' = (orders \ {o}) \cup {[o EXCEPT !.payload = payload]}
    BY DEF UpdateQuantity
  <1> DEFINE n == [o EXCEPT !.payload = payload]
  <1>2. n.id = o.id /\ n.key = o.key /\ n.asked = o.asked /\ n.intent = o.intent
    BY DEF TypeOK, Orders
  <1> HIDE DEF n
  <1>3. orders' = (orders \ {o}) \cup {n}
    BY <1>1 DEF n
  <1> QED  BY <1>2, <1>3 DEF Requantified

\* The steps of clients, seen from the slots and the tables.
ClientStep ==
    \/ \E p \in Pages : Submit(p) \/ Edit(p) \/ GiveUp(p) \/ Reload(p)
    \/ \E s \in Slots : CallerSends(s)
    \/ UpdateQuantity

\* A client step touches no row and no number, and sends one request or none.
LEMMA ClientFrame ==
    ASSUME TypeOK, ClientStep
    PROVE  /\ UNCHANGED <<rows, sequence>>
           /\ Requantified
           /\ (\A a, b \in orders : a.id = b.id => a = b) =>
                 \A a, b \in orders' : a.id = b.id => a = b
           /\ \/ Quiet
              \/ \E s \in Slots, from \in Pages \cup {Nobody},
                    intent \in (Pages \cup {Nobody}) \X Nat,
                    key \in Keys \cup {NoKey} : Sends(s, from, intent, key)
  <1>1. ASSUME request' = request
        PROVE  Quiet
    BY <1>1 DEF Quiet, Loose
  <1>2. ASSUME UNCHANGED orders
        PROVE  Requantified
    BY <1>2 DEF Requantified
  <1>3. ASSUME NEW p \in Pages, Submit(p)
        PROVE  \E s \in Slots, from \in Pages \cup {Nobody},
                  intent \in (Pages \cup {Nobody}) \X Nat,
                  key \in Keys \cup {NoKey} : Sends(s, from, intent, key)
    <2> DEFINE f == page[p]
    <2>1. PICK s \in Slots, key \in PendingKeys(p) :
            Send(s, p, <<p, f.intent>>, key, f.form)
      BY <1>3, SubmitStep
    <2>2. f.form \in Payloads /\ f.intent \in Nat /\ key \in PageKeys
      BY PendingKeysTyped DEF TypeOK, Forms
    <2>3. Sends(s, p, <<p, f.intent>>, key)
      BY <2>1, <2>2, SendFrame DEF Keys
    <2> QED  BY <2>2, <2>3 DEF Keys
  <1>4. ASSUME NEW s \in Slots, CallerSends(s)
        PROVE  \E from \in Pages \cup {Nobody},
                  intent \in (Pages \cup {Nobody}) \X Nat,
                  key \in Keys \cup {NoKey} : Sends(s, from, intent, key)
    <2>1. PICK key \in CallerKeys \cup {NoKey}, payload \in Payloads :
            Send(s, Nobody, <<Nobody, 0>>, key, payload)
      BY <1>4 DEF CallerSends
    <2>2. Sends(s, Nobody, <<Nobody, 0>>, key)
      BY <2>1, SendFrame DEF Keys
    <2> QED  BY <2>2 DEF Keys
  <1>5. CASE \E p \in Pages : Submit(p)
    BY <1>2, <1>3, <1>5 DEF Submit, database
  <1>6. CASE \E p \in Pages : Edit(p)
    BY <1>1, <1>2, <1>6 DEF Edit, database
  <1>7. CASE \E p \in Pages : GiveUp(p) \/ Reload(p)
    BY <1>2, <1>7, DetachedFrame DEF GiveUp, Reload, database
  <1>8. CASE \E s \in Slots : CallerSends(s)
    BY <1>2, <1>4, <1>8 DEF CallerSends, database
  <1>9. CASE UpdateQuantity
    BY <1>1, <1>9, UpdateQuantityFrame DEF UpdateQuantity
  <1> QED  BY <1>5, <1>6, <1>7, <1>8, <1>9 DEF ClientStep
-----------------------------------------------------------------------------
(* Each step of a slot, seen from the fields of its request.               *)

\* The request goes on, and still asks for the same.
Moves(s, at, tx, order, status) ==
    /\ request[s] \in Requests
    /\ \A t \in Slots : t # s => request'[t] = request[t]
    /\ request'[s] # NoRequest
    /\ Same(request'[s], request[s])
    /\ request'[s].at = at /\ request'[s].tx = tx
    /\ request'[s].order = order /\ request'[s].status = status

\* The request is over.
Frees(s) ==
    /\ request[s] \in Requests
    /\ \A t \in Slots : t # s => request'[t] = request[t]
    /\ request'[s] = NoRequest

\* Replacing a request by one that goes on is such a step.
LEMMA GoesMoves ==
    ASSUME TypeOK, NEW s \in Slots, request[s] \in Requests,
           NEW at, NEW tx, NEW order, NEW status,
           request' = [request EXCEPT ![s] =
                         Goes(request[s], at, tx, order, status)]
    PROVE  Moves(s, at, tx, order, status)
  <1> DEFINE q == Goes(request[s], at, tx, order, status)
  <1>1. request'[s] = q /\ \A t \in Slots : t # s => request'[t] = request[t]
    BY DEF TypeOK
  <1>2. q.payload # "none"
    BY GoesFields, KeysAssumption DEF Requests
  <1>3. q # NoRequest
    BY <1>2, FreeSlots
  <1> QED  BY <1>1, <1>3, GoesFields DEF Moves, Same

\* So is freeing it.
LEMMA FreesSlot ==
    ASSUME TypeOK, NEW s \in Slots, request[s] \in Requests,
           request' = [request EXCEPT ![s] = NoRequest]
    PROVE  Frees(s)
  BY DEF TypeOK, Frees

\* Validation.
LEMMA ReceiveMoves ==
    ASSUME TypeOK, NEW s \in Slots, Receive(s)
    PROVE  LET r == request[s]
           IN  /\ r.at = "sent"
               /\ \/ /\ r.payload \notin Valid
                     /\ Moves(s, "answered", r.tx, 0, 400)
                  \/ /\ r.payload \in Valid /\ r.key = NoKey
                     /\ Moves(s, "received", r.tx, r.order, r.status)
                  \/ /\ r.payload \in Valid /\ r.key # NoKey
                     /\ Moves(s, "reserve", r.tx, r.order, r.status)
  <1> DEFINE r == request[s]
  <1>1. r \in Requests /\ r.at = "sent"
    BY ReceiveStep
  <1>2. CASE r.payload \notin Valid
    <2>1. request' = [request EXCEPT ![s] = Goes(r, "answered", r.tx, 0, 400)]
      BY <1>2, ReceiveStep
    <2> QED  BY <1>1, <1>2, <2>1, GoesMoves
  <1>3. CASE r.payload \in Valid /\ r.key = NoKey
    <2>1. request' = [request EXCEPT ![s] =
             Goes(r, "received", r.tx, r.order, r.status)]
      BY <1>3, ReceiveStep
    <2> QED  BY <1>1, <1>3, <2>1, GoesMoves
  <1>4. CASE r.payload \in Valid /\ r.key # NoKey
    <2>1. request' = [request EXCEPT ![s] =
             Goes(r, "reserve", r.tx, r.order, r.status)]
      BY <1>4, ReceiveStep
    <2> QED  BY <1>1, <1>4, <2>1, GoesMoves
  <1> QED  BY <1>2, <1>3, <1>4

\* The row is written, or found.
LEMMA ReserveMoves ==
    ASSUME TypeOK, NEW s \in Slots, Reserve(s)
    PROVE  LET r == request[s]
           IN  /\ r.at = "reserve"
               /\ ~Held(r.key)
               /\ \/ /\ rows[r.key] = NoRow
                     /\ Moves(s, "insert", "open", r.order, r.status)
                  \/ /\ rows[r.key] # NoRow
                     /\ Moves(s, "lookup", r.tx, r.order, r.status)
  <1> DEFINE r == request[s]
  <1>1. r \in Requests /\ r.at = "reserve" /\ ~Held(r.key)
    BY ReserveStep DEF Reserve
  <1>2. CASE rows[r.key] = NoRow
    <2>1. request' = [request EXCEPT ![s] =
             Goes(r, "insert", "open", r.order, r.status)]
      BY <1>2, ReserveStep
    <2> QED  BY <1>1, <1>2, <2>1, GoesMoves
  <1>3. CASE rows[r.key] # NoRow
    <2>1. request' = [request EXCEPT ![s] =
             Goes(r, "lookup", r.tx, r.order, r.status)]
      BY <1>3, ReserveStep
    <2> QED  BY <1>1, <1>3, <2>1, GoesMoves
  <1> QED  BY <1>2, <1>3

\* The row that was found is read.
LEMMA LookupMoves ==
    ASSUME TypeOK, NEW s \in Slots, Lookup(s)
    PROVE  LET r == request[s]
               row == rows[r.key]
           IN  /\ r.at = "lookup"
               /\ \/ Moves(s, "answered", r.tx, 0, 503)
                  \/ /\ row.order # 0 /\ row.payload = r.payload
                     /\ Moves(s, "answered", r.tx, row.order, 201)
                  \/ /\ row.order # 0 /\ row.payload # r.payload
                     /\ Moves(s, "answered", r.tx, 0, 409)
  <1> DEFINE r == request[s]
             row == rows[r.key]
  <1>1. r \in Requests /\ r.at = "lookup"
    BY LookupStep
  <1>2. CASE row.order = 0
    <2>1. request' = [request EXCEPT ![s] = Goes(r, "answered", r.tx, 0, 503)]
      BY <1>2, LookupStep
    <2>2. Moves(s, "answered", r.tx, 0, 503)
      BY <1>1, <2>1, GoesMoves
    <2> QED  BY <1>1, <2>2
  <1>3. CASE row.order # 0 /\ row.payload = r.payload
    <2>1. request' = [request EXCEPT ![s] =
             Goes(r, "answered", r.tx, row.order, 201)]
      BY <1>3, LookupStep
    <2>2. Moves(s, "answered", r.tx, row.order, 201)
      BY <1>1, <2>1, GoesMoves
    <2> QED  BY <1>1, <1>3, <2>2
  <1>4. CASE row.order # 0 /\ row.payload # r.payload
    <2>1. request' = [request EXCEPT ![s] = Goes(r, "answered", r.tx, 0, 409)]
      BY <1>4, LookupStep
    <2>2. Moves(s, "answered", r.tx, 0, 409)
      BY <1>1, <2>1, GoesMoves
    <2> QED  BY <1>1, <1>4, <2>2
  <1> QED  BY <1>2, <1>3, <1>4

\* The order is written, and COMMIT sent.
LEMMA InsertMoves ==
    ASSUME TypeOK, NEW s \in Slots, Insert(s)
    PROVE  LET r == request[s]
           IN  /\ \/ r.at = "received"
                  \/ r.at = "insert" /\ r.tx = "open"
               /\ Moves(s, "commit", "committing", sequence, r.status)
  BY InsertStep, GoesMoves

\* The acknowledgement of the COMMIT.
LEMMA CommittedMoves ==
    ASSUME TypeOK, NEW s \in Slots, Committed(s)
    PROVE  LET r == request[s]
           IN  /\ r.at = "commit" /\ r.tx = "committed"
               /\ Moves(s, "answered", r.tx, r.order, 201)
  BY CommittedStep, GoesMoves

\* A failure of the handler.
LEMMA GiveUpOnDatabaseMoves ==
    ASSUME TypeOK, NEW s \in Slots, GiveUpOnDatabase(s)
    PROVE  LET r == request[s]
           IN  /\ r.at \in Working
               /\ \/ /\ Unresolved(r)
                     /\ Moves(s, "answered", r.tx, r.order, 503)
                  \/ /\ ~Unresolved(r)
                     /\ Moves(s, "answered", "none", 0, 503)
  <1> DEFINE r == request[s]
  <1>1. r \in Requests /\ r.at \in Working
    BY GiveUpOnDatabaseStep
  <1>2. CASE Unresolved(r)
    <2>1. request' = [request EXCEPT ![s] =
             Goes(r, "answered", r.tx, r.order, 503)]
      BY <1>2, GiveUpOnDatabaseStep
    <2> QED  BY <1>1, <1>2, <2>1, GoesMoves
  <1>3. CASE ~Unresolved(r)
    <2>1. request' = [request EXCEPT ![s] = Goes(r, "answered", "none", 0, 503)]
      BY <1>3, GiveUpOnDatabaseStep
    <2> QED  BY <1>1, <1>3, <2>1, GoesMoves
  <1> QED  BY <1>2, <1>3

\* The answer is taken.
LEMMA DeliverMoves ==
    ASSUME TypeOK, NEW s \in Slots, Deliver(s)
    PROVE  LET r == request[s]
           IN  /\ r.at = "answered"
               /\ \/ /\ Unresolved(r)
                     /\ Moves(s, "closed", r.tx, r.order, r.status)
                  \/ ~Unresolved(r) /\ Frees(s)
  <1> DEFINE r == request[s]
  <1>1. r \in Requests /\ r.at = "answered"
    BY DeliverStep
  <1>2. CASE Unresolved(r)
    <2>1. request' = [request EXCEPT ![s] =
             Goes(r, "closed", r.tx, r.order, r.status)]
      BY <1>2, DeliverStep
    <2> QED  BY <1>1, <1>2, <2>1, GoesMoves
  <1>3. CASE ~Unresolved(r)
    <2>1. request' = [request EXCEPT ![s] = NoRequest]
      BY <1>3, DeliverStep
    <2> QED  BY <1>1, <1>3, <2>1, FreesSlot
  <1> QED  BY <1>2, <1>3

\* The transaction ends.
LEMMA EndTxMoves ==
    ASSUME TypeOK, NEW s \in Slots, Unresolved(request[s]), NEW outcome,
           EndTx(s, outcome)
    PROVE  LET r == request[s]
           IN  \/ /\ r.at \in Working
                  /\ Moves(s, r.at, outcome, r.order, r.status)
               \/ r.at = "closed" /\ Frees(s)
               \/ /\ r.at \notin Working \cup {"closed"}
                  /\ Moves(s, r.at, "none", 0, r.status)
  <1> DEFINE r == request[s]
  <1>1. r \in Requests
    BY EndTxStep
  <1>2. CASE r.at \in Working
    <2>1. request' = [request EXCEPT ![s] =
             Goes(r, r.at, outcome, r.order, r.status)]
      BY <1>2, EndTxStep
    <2> QED  BY <1>1, <1>2, <2>1, GoesMoves
  <1>3. CASE r.at = "closed"
    <2>1. request' = [request EXCEPT ![s] = NoRequest]
      BY <1>3, EndTxStep DEF Working
    <2> QED  BY <1>1, <1>3, <2>1, FreesSlot
  <1>4. CASE r.at \notin Working \cup {"closed"}
    <2>1. request' = [request EXCEPT ![s] = Goes(r, r.at, "none", 0, r.status)]
      BY <1>4, EndTxStep
    <2> QED  BY <1>1, <1>4, <2>1, GoesMoves
  <1> QED  BY <1>2, <1>3, <1>4
-----------------------------------------------------------------------------
(* Handlers.                                                               *)

\* What a request may be is kept by the steps of its handler and of its
\* transaction.
LEMMA SlotHandlers ==
    ASSUME IInv, NEW s \in Slots, SlotStep(s)
    PROVE  HandlersMatch'
  <1> USE DEF IInv
  <1> DEFINE r == request[s]
             q == request'[s]
  <1>1. SUFFICES q # NoRequest => Fits(q)
    BY SlotFrame DEF HandlersMatch
  <1>2. r \in Requests /\ Fits(r)
    BY SlotFrame, FreeSlots DEF HandlersMatch
  <1>3. r.at \in Points /\ r.tx \in TxStates
    BY <1>2 DEF Requests
  <1> HIDE DEF IInv
  <1> TypeOK
    BY DEF IInv
  <1> USE DEF Moves, Same, Fits, Unresolved, Working
  <1>4. CASE Receive(s)
    BY <1>2, <1>4, ReceiveMoves
  <1>5. CASE Reserve(s)
    BY <1>2, <1>5, ReserveMoves
  <1>6. CASE Lookup(s)
    BY <1>2, <1>6, LookupMoves
  <1>7. CASE Insert(s)
    BY <1>2, <1>7, InsertMoves
  <1>8. CASE Committed(s)
    BY <1>2, <1>8, CommittedMoves
  <1>9. CASE GiveUpOnDatabase(s)
    BY <1>2, <1>9, GiveUpOnDatabaseMoves
  <1>10. CASE Deliver(s)
    BY <1>2, <1>10, DeliverMoves DEF Frees
  <1>11. CASE DbCommits(s)
    <2>1. EndTx(s, "committed") /\ r.tx = "committing"
      BY <1>11 DEF DbCommits
    <2> QED  BY <1>2, <1>3, <2>1, EndTxMoves DEF Frees, Points
  <1>12. CASE DbRollsBack(s)
    <2>1. EndTx(s, "aborted") /\ Unresolved(r)
      BY <1>12 DEF DbRollsBack
    <2> QED  BY <1>2, <1>3, <2>1, EndTxMoves DEF Frees, Points
  <1> QED  BY <1>4, <1>5, <1>6, <1>7, <1>8, <1>9, <1>10, <1>11, <1>12
           DEF SlotStep, Handle

\* And by what clients do.
LEMMA ClientHandlers ==
    ASSUME IInv, ClientStep
    PROVE  HandlersMatch'
  <1>1. TypeOK /\ HandlersMatch
    BY DEF IInv
  <1>2. SUFFICES ASSUME NEW t \in Slots, request'[t] # NoRequest
                 PROVE  Fits(request'[t])
    BY DEF HandlersMatch
  <1>3. CASE Quiet
    BY <1>1, <1>2, <1>3 DEF HandlersMatch, Quiet, Loose, Fits, Unresolved
  <1>4. ASSUME NEW s \in Slots, NEW from, NEW intent, NEW key,
               Sends(s, from, intent, key)
        PROVE  Fits(request'[t])
    BY <1>1, <1>2, <1>4 DEF HandlersMatch, Sends, Fits, Unresolved, Working
  <1> QED  BY <1>1, <1>3, <1>4, ClientFrame
-----------------------------------------------------------------------------
(* Numbers, the unique key, the answers and the two tables.                *)

\* No other transaction is about to commit, and none for another number.
NoNewCommit ==
    \A t \in Slots : request'[t].tx = "committing" =>
        request[t].tx = "committing" /\ request'[t].order = request[t].order

\* No other transaction holds a key, and nobody else found its row.
NoNewHolder ==
    \A t \in Slots :
        /\ Unresolved(request'[t]) /\ request'[t].key # NoKey =>
              Unresolved(request[t]) /\ request'[t].key = request[t].key
        /\ request'[t].at = "lookup" =>
              request[t].at = "lookup" /\ request'[t].key = request[t].key

\* No other answer names an order.
NoNewAnswer ==
    \A t \in Slots : request'[t].tx = "committed" \/ request'[t].status = 201 =>
        /\ request[t].tx = "committed" \/ request[t].status = 201
        /\ request'[t].order = request[t].order
        /\ request'[t].key = request[t].key
        /\ request'[t].payload = request[t].payload

\* Steps that leave the tables alone, up to quantities.
LEMMA OrdersAlone ==
    ASSUME UNCHANGED orders
    PROVE  Requantified
  BY DEF Requantified

\* Then no number is given twice,
LEMMA NumbersKept ==
    ASSUME NumbersMatch, NoNewCommit, UNCHANGED sequence, Requantified,
           \A a, b \in orders' : a.id = b.id => a = b
    PROVE  NumbersMatch'
  <1>1. \A s \in Slots : request'[s].tx = "committing" =>
          /\ 1 <= request'[s].order /\ request'[s].order < sequence'
          /\ \A n \in orders' : n.id # request'[s].order
    BY DEF NumbersMatch, NoNewCommit, Requantified
  <1>2. \A s, t \in Slots :
          /\ request'[s].tx = "committing" /\ request'[t].tx = "committing"
          /\ request'[s].order = request'[t].order
          => s = t
    BY DEF NumbersMatch, NoNewCommit
  <1>3. \A n \in orders' : 1 <= n.id /\ n.id < sequence'
    BY DEF NumbersMatch, Requantified
  <1> QED  BY <1>1, <1>2, <1>3 DEF NumbersMatch

\* no key is held twice,
LEMMA RowsKept ==
    ASSUME RowsGuarded, NoNewHolder, UNCHANGED rows
    PROVE  RowsGuarded'
  <1>1. ASSUME NEW s \in Slots, NEW t \in Slots,
               Unresolved(request'[s]), Unresolved(request'[t]),
               request'[s].key = request'[t].key, request'[s].key # NoKey
        PROVE  s = t
    BY <1>1 DEF RowsGuarded, NoNewHolder
  <1>2. ASSUME NEW s \in Slots,
               Unresolved(request'[s]), request'[s].key # NoKey
        PROVE  rows'[request'[s].key] = NoRow
    BY <1>2 DEF RowsGuarded, NoNewHolder
  <1>3. ASSUME NEW s \in Slots, request'[s].at = "lookup"
        PROVE  rows'[request'[s].key] # NoRow
    BY <1>3 DEF RowsGuarded, NoNewHolder
  <1> QED  BY <1>1, <1>2, <1>3 DEF RowsGuarded, Unresolved

\* every answer 201 still names its order,
LEMMA AnswersKept ==
    ASSUME AnswersTrue, NoNewAnswer, Requantified
    PROVE  AnswersTrue'
  <1>1. ASSUME NEW s \in Slots,
               request'[s].tx = "committed" \/ request'[s].status = 201
        PROVE  \E n \in orders' : /\ n.id = request'[s].order
                                  /\ n.key = request'[s].key
                                  /\ n.asked = request'[s].payload
    <2>1. PICK o \in orders : /\ o.id = request[s].order
                              /\ o.key = request[s].key
                              /\ o.asked = request[s].payload
      BY <1>1 DEF AnswersTrue, NoNewAnswer
    <2>2. PICK n \in orders' :
            n.id = o.id /\ n.key = o.key /\ n.asked = o.asked
      BY DEF Requantified
    <2> QED  BY <1>1, <2>1, <2>2 DEF NoNewAnswer
  <1> QED  BY <1>1 DEF AnswersTrue

\* and rows and orders still agree.
LEMMA RecordsKept ==
    ASSUME RecordsComplete, UNCHANGED rows, Requantified
    PROVE  RecordsComplete'
  <1>1. ASSUME NEW k \in Keys, rows'[k] # NoRow
        PROVE  \E n \in orders' : /\ n.id = rows'[k].order /\ n.key = k
                                  /\ n.asked = rows'[k].payload
    <2>1. PICK o \in orders : /\ o.id = rows[k].order /\ o.key = k
                              /\ o.asked = rows[k].payload
      BY <1>1 DEF RecordsComplete
    <2>2. PICK n \in orders' :
            n.id = o.id /\ n.key = o.key /\ n.asked = o.asked
      BY DEF Requantified
    <2> QED  BY <2>1, <2>2
  <1>2. ASSUME NEW n \in orders', n.key \in Keys
        PROVE  rows'[n.key].order = n.id
    BY <1>2 DEF RecordsComplete, Requantified
  <1> QED  BY <1>1, <1>2 DEF RecordsComplete

\* What clients do neither commits nor answers anything.
LEMMA ClientTables ==
    ASSUME IInv, ClientStep
    PROVE  NumbersMatch' /\ RowsGuarded' /\ AnswersTrue' /\ RecordsComplete'
  <1> TypeOK /\ NumbersMatch /\ RowsGuarded /\ AnswersTrue /\ RecordsComplete
    BY DEF IInv
  <1>1. /\ UNCHANGED <<rows, sequence>> /\ Requantified
        /\ \A a, b \in orders' : a.id = b.id => a = b
    BY ClientFrame DEF NumbersMatch
  <1>2. NoNewCommit /\ NoNewHolder /\ NoNewAnswer
    <2>1. CASE Quiet
      BY <2>1, FreeSlots DEF Quiet, Loose, NoNewCommit, NoNewHolder, NoNewAnswer,
                             Unresolved
    <2>2. ASSUME NEW s \in Slots, NEW from, NEW intent, NEW key,
                 Sends(s, from, intent, key)
          PROVE  NoNewCommit /\ NoNewHolder /\ NoNewAnswer
      BY <2>2 DEF Sends, NoNewCommit, NoNewHolder, NoNewAnswer, Unresolved
    <2> QED  BY <2>1, <2>2, ClientFrame
  <1> QED  BY <1>1, <1>2, NumbersKept, RowsKept, AnswersKept, RecordsKept

\* The number an INSERT takes from the sequence is new.
LEMMA InsertTables ==
    ASSUME IInv, NEW s \in Slots, Insert(s)
    PROVE  NumbersMatch' /\ RowsGuarded' /\ AnswersTrue' /\ RecordsComplete'
  <1> TypeOK /\ NumbersMatch /\ RowsGuarded /\ AnswersTrue /\ RecordsComplete
      /\ HandlersMatch
    BY DEF IInv
  <1> DEFINE r == request[s]
  <1>1. /\ sequence' = sequence + 1 /\ UNCHANGED <<rows, orders>>
        /\ sequence \in Nat
    BY DEF Insert, TypeOK
  <1>2. /\ \A t \in Slots : t # s => request'[t] = request[t]
        /\ request'[s].tx = "committing" /\ request'[s].order = sequence
        /\ request'[s].key = r.key /\ request'[s].at = "commit"
        /\ request'[s].status = r.status
    BY InsertMoves DEF Moves, Same
  <1>3. r # NoRequest /\ Fits(r)
    BY InsertStep, FreeSlots DEF HandlersMatch
  <1>4. r.at \in {"received", "insert"} /\ r.status = 0
        /\ (r.at = "received" => r.key = NoKey)
        /\ (r.at = "insert" => r.tx = "open")
    BY <1>3, InsertMoves DEF Fits, Working
  <1>5. NumbersMatch'
    <2>1. \A o \in orders : o.id < sequence + 1 /\ o.id # sequence
      BY <1>1 DEF NumbersMatch, TypeOK, Orders
    <2>2. \A t \in Slots : request[t].tx = "committing" =>
            request[t].order < sequence + 1 /\ request[t].order # sequence
      <3>1. \A t \in Slots : request[t].order \in Nat
        BY DEF TypeOK, Requests, NoRequest
      <3> QED  BY <1>1, <3>1 DEF NumbersMatch
    <2>3. sequence < sequence + 1 /\ sequence + 1 >= 1
      BY <1>1
    <2> QED  BY <1>1, <1>2, <2>1, <2>2, <2>3 DEF NumbersMatch
  <1>6. NoNewHolder /\ NoNewAnswer
    BY <1>2, <1>4 DEF NoNewHolder, NoNewAnswer, Unresolved
  <1> QED  BY <1>1, <1>5, <1>6, OrdersAlone, RowsKept, AnswersKept, RecordsKept

\* Only one transaction writes the row of a key.
LEMMA ReserveTables ==
    ASSUME IInv, NEW s \in Slots, Reserve(s)
    PROVE  NumbersMatch' /\ RowsGuarded' /\ AnswersTrue' /\ RecordsComplete'
  <1> TypeOK /\ NumbersMatch /\ RowsGuarded /\ AnswersTrue /\ RecordsComplete
      /\ HandlersMatch
    BY DEF IInv
  <1> DEFINE r == request[s]
  <1>1. UNCHANGED <<rows, orders, sequence>>
    BY DEF Reserve, database
  <1>2. /\ r.at = "reserve" /\ ~Held(r.key)
        /\ \A t \in Slots : t # s => request'[t] = request[t]
        /\ request'[s].key = r.key /\ request'[s].payload = r.payload
        /\ request'[s].status = r.status /\ request'[s].order = r.order
        /\ \/ /\ rows[r.key] = NoRow
              /\ request'[s].at = "insert" /\ request'[s].tx = "open"
           \/ /\ rows[r.key] # NoRow
              /\ request'[s].at = "lookup" /\ request'[s].tx = r.tx
    BY ReserveMoves DEF Moves, Same
  <1>3. r.tx = "none" /\ r.key # NoKey /\ r.status = 0
    <2>1. r # NoRequest /\ Fits(r)
      BY <1>2, FreeSlots DEF HandlersMatch
    <2> QED  BY <1>2, <2>1 DEF Fits, Working
  <1>4. NoNewCommit /\ NoNewAnswer
    BY <1>2, <1>3 DEF NoNewCommit, NoNewAnswer
  <1>5. NumbersMatch'
    BY <1>1, <1>4, OrdersAlone, NumbersKept DEF NumbersMatch
  <1>6. RowsGuarded'
    <2>1. CASE rows[r.key] # NoRow
      BY <1>1, <1>2, <1>3, <2>1 DEF RowsGuarded, Unresolved
    <2>2. CASE rows[r.key] = NoRow
      <3>1. \A t \in Slots : ~(request[t].key = r.key /\ Unresolved(request[t]))
        BY <1>2 DEF Held, Holds
      <3> QED  BY <1>1, <1>2, <1>3, <2>2, <3>1 DEF RowsGuarded, Unresolved
    <2> QED  BY <2>1, <2>2
  <1> QED  BY <1>1, <1>4, <1>5, <1>6, OrdersAlone, AnswersKept, RecordsKept

\* What was recorded is what is replayed.
LEMMA LookupTables ==
    ASSUME IInv, NEW s \in Slots, Lookup(s)
    PROVE  NumbersMatch' /\ RowsGuarded' /\ AnswersTrue' /\ RecordsComplete'
  <1> TypeOK /\ NumbersMatch /\ RowsGuarded /\ AnswersTrue /\ RecordsComplete
      /\ HandlersMatch
    BY DEF IInv
  <1> DEFINE r == request[s]
             row == rows[r.key]
  <1>1. UNCHANGED <<rows, orders, sequence>>
    BY DEF Lookup, database
  <1>2. /\ r.at = "lookup"
        /\ \A t \in Slots : t # s => request'[t] = request[t]
        /\ request'[s].key = r.key /\ request'[s].payload = r.payload
        /\ request'[s].at = "answered" /\ request'[s].tx = r.tx
        /\ \/ request'[s].status # 201
           \/ /\ row.payload = r.payload
              /\ request'[s].status = 201 /\ request'[s].order = row.order
    BY LookupMoves DEF Moves, Same
  <1>3. r.tx = "none" /\ r.key \in Keys
    <2>1. r # NoRequest /\ Fits(r) /\ r \in Requests
      BY <1>2, LookupStep, FreeSlots DEF HandlersMatch
    <2> QED  BY <1>2, <2>1 DEF Fits, Requests
  <1>4. NoNewCommit /\ NoNewHolder
    BY <1>2, <1>3 DEF NoNewCommit, NoNewHolder, Unresolved
  <1>5. NumbersMatch'
    BY <1>1, <1>4, OrdersAlone, NumbersKept DEF NumbersMatch
  <1>6. AnswersTrue'
    <2>1. row # NoRow
      BY <1>2 DEF RowsGuarded
    <2>2. PICK o \in orders : /\ o.id = row.order /\ o.key = r.key
                              /\ o.asked = row.payload
      BY <1>3, <2>1 DEF RecordsComplete
    <2>3. \A t \in Slots : t # s =>
            (request'[t].tx = "committed" \/ request'[t].status = 201 =>
               \E n \in orders : /\ n.id = request'[t].order
                                 /\ n.key = request'[t].key
                                 /\ n.asked = request'[t].payload)
      BY <1>2 DEF AnswersTrue
    <2> QED  BY <1>1, <1>2, <1>3, <2>2, <2>3 DEF AnswersTrue
  <1> QED  BY <1>1, <1>4, <1>5, <1>6, OrdersAlone, RowsKept, RecordsKept

\* The other steps of a handler, and a rollback, do not touch the tables.
LEMMA QuietTables ==
    ASSUME IInv, NEW s \in Slots,
           \/ Receive(s) \/ Committed(s) \/ GiveUpOnDatabase(s)
           \/ Deliver(s) \/ DbRollsBack(s)
    PROVE  NumbersMatch' /\ RowsGuarded' /\ AnswersTrue' /\ RecordsComplete'
  <1> TypeOK /\ NumbersMatch /\ RowsGuarded /\ AnswersTrue /\ RecordsComplete
      /\ HandlersMatch
    BY DEF IInv
  <1> DEFINE r == request[s]
             q == request'[s]
  <1>1. UNCHANGED <<rows, orders, sequence>>
    BY DEF Receive, Committed, GiveUpOnDatabase, Deliver, DbRollsBack, database
  <1>2. r # NoRequest => Fits(r)
    BY DEF HandlersMatch
  <1> DEFINE Fine ==
        /\ \A t \in Slots : t # s => request'[t] = request[t]
        /\ q.tx = "committing" => r.tx = "committing" /\ q.order = r.order
        /\ Unresolved(q) /\ q.key # NoKey => Unresolved(r) /\ q.key = r.key
        /\ q.at # "lookup"
        /\ q.tx = "committed" \/ q.status = 201 =>
              /\ r.tx = "committed" \/ r.status = 201
              /\ q.order = r.order /\ q.key = r.key /\ q.payload = r.payload
  <1>3. CASE Receive(s)
    <2>1. r.at = "sent" /\ r # NoRequest /\ r.tx = "none" /\ r.status = 0
      <3>1. r.at = "sent" /\ r # NoRequest
        BY <1>3, ReceiveMoves, FreeSlots
      <3> QED  BY <1>2, <3>1 DEF Fits
    <2>2. Fine
      BY <1>3, <2>1, ReceiveMoves DEF Moves, Same, Unresolved
    <2> QED  BY <1>1, <2>2, OrdersAlone, NumbersKept, RowsKept, AnswersKept,
                RecordsKept
             DEF NoNewCommit, NoNewHolder, NoNewAnswer, NumbersMatch
  <1>4. CASE Committed(s)
    <2>2. Fine
      BY <1>4, CommittedMoves DEF Moves, Same, Unresolved
    <2> QED  BY <1>1, <2>2, OrdersAlone, NumbersKept, RowsKept, AnswersKept,
                RecordsKept
             DEF NoNewCommit, NoNewHolder, NoNewAnswer, NumbersMatch
  <1>5. CASE GiveUpOnDatabase(s)
    <2>2. Fine
      BY <1>5, GiveUpOnDatabaseMoves DEF Moves, Same, Unresolved
    <2> QED  BY <1>1, <2>2, OrdersAlone, NumbersKept, RowsKept, AnswersKept,
                RecordsKept
             DEF NoNewCommit, NoNewHolder, NoNewAnswer, NumbersMatch
  <1>6. CASE Deliver(s)
    <2>2. Fine
      BY <1>6, DeliverMoves, FreeSlots DEF Moves, Frees, Same, Unresolved
    <2> QED  BY <1>1, <2>2, OrdersAlone, NumbersKept, RowsKept, AnswersKept,
                RecordsKept
             DEF NoNewCommit, NoNewHolder, NoNewAnswer, NumbersMatch
  <1>7. CASE DbRollsBack(s)
    <2>1. EndTx(s, "aborted") /\ Unresolved(r) /\ r # NoRequest /\ r \in Requests
      BY <1>7, EndTxStep, FreeSlots DEF DbRollsBack
    <2>2. r.at \in Points
      BY <2>1 DEF Requests
    <2>3. /\ r.at \notin {"lookup", "sent"}
          /\ r.at \in Working => r.status = 0
          /\ r.at = "answered" => r.status = 503
      BY <1>2, <2>1 DEF Fits, Unresolved
    <2>4. Fine
      BY <2>1, <2>2, <2>3, EndTxMoves, FreeSlots
         DEF Moves, Frees, Same, Unresolved, Points
    <2> QED  BY <1>1, <2>4, OrdersAlone, NumbersKept, RowsKept, AnswersKept,
                RecordsKept
             DEF NoNewCommit, NoNewHolder, NoNewAnswer, NumbersMatch
  <1> QED  BY <1>3, <1>4, <1>5, <1>6, <1>7

\* A commit makes the order and the row of its key visible together, and there
\* was neither before.
LEMMA CommitTables ==
    ASSUME IInv, NEW s \in Slots, DbCommits(s)
    PROVE  NumbersMatch' /\ RowsGuarded' /\ AnswersTrue' /\ RecordsComplete'
  <1> TypeOK /\ NumbersMatch /\ RowsGuarded /\ AnswersTrue /\ RecordsComplete
      /\ HandlersMatch
    BY DEF IInv
  <1> DEFINE r == request[s]
             q == request'[s]
             new == OrderOf(r)
  <1>1. /\ r.tx = "committing" /\ EndTx(s, "committed")
        /\ orders' = orders \cup {new}
        /\ rows' = IF r.key = NoKey THEN rows ELSE [rows EXCEPT ![r.key] = RowOf(r)]
        /\ UNCHANGED sequence
    BY DEF DbCommits
  <1>2. r \in Requests /\ r # NoRequest /\ Fits(r) /\ Unresolved(r)
    BY <1>1, RequestTyped, FreeSlots DEF HandlersMatch, Unresolved
  <1>3. /\ new.id = r.order /\ new.key = r.key /\ new.asked = r.payload
    BY DEF OrderOf
  <1>4. RowOf(r).payload = r.payload /\ RowOf(r).order = r.order
        /\ RowOf(r) # NoRow
    BY <1>2, KeysAssumption DEF RowOf, NoRow, Requests
  <1>5. /\ \A t \in Slots : t # s => request'[t] = request[t]
        /\ q.tx \in {"committed", "none"} /\ q.at # "lookup"
        /\ q.tx = "committed" \/ q.status = 201 =>
              q.order = r.order /\ q.key = r.key /\ q.payload = r.payload
    <2>1. /\ r.at # "lookup" /\ r.at \in Points
          /\ r.at \in {"answered", "sent"} => r.status # 201
      BY <1>1, <1>2 DEF Fits, Requests, Working
    <2> QED  BY <1>1, <1>2, <2>1, EndTxMoves, FreeSlots
             DEF Moves, Frees, Same, Points
  <1>6. /\ 1 <= r.order /\ r.order < sequence
        /\ \A o \in orders : o.id # r.order
        /\ \A t \in Slots : request[t].tx = "committing" /\ t # s =>
              request[t].order # r.order
    BY <1>1 DEF NumbersMatch
  <1>7. r.key # NoKey => r.key \in Keys /\ rows[r.key] = NoRow
    BY <1>1, <1>2 DEF RowsGuarded, Unresolved, Requests
  <1>8. /\ \A k \in Keys : k # r.key => rows'[k] = rows[k]
        /\ r.key # NoKey => rows'[r.key] = RowOf(r)
    BY <1>1, <1>7 DEF TypeOK
  <1> HIDE DEF new, q
  <1>9. NumbersMatch'
    <2>1. \A t \in Slots : request'[t].tx = "committing" =>
            t # s /\ request'[t] = request[t]
      BY <1>5 DEF q
    <2> QED  BY <1>1, <1>3, <1>6, <2>1 DEF NumbersMatch
  <1>10. RowsGuarded'
    <2>1. \A t \in Slots : Unresolved(request'[t]) \/ request'[t].at = "lookup" =>
            t # s /\ request'[t] = request[t]
      BY <1>5 DEF q, Unresolved
    <2>2. ASSUME NEW t \in Slots, NEW u \in Slots,
                 Unresolved(request'[t]), Unresolved(request'[u]),
                 request'[t].key = request'[u].key, request'[t].key # NoKey
          PROVE  t = u
      BY <2>1, <2>2 DEF RowsGuarded
    <2>3. ASSUME NEW t \in Slots,
                 Unresolved(request'[t]), request'[t].key # NoKey
          PROVE  rows'[request'[t].key] = NoRow
      <3>1. t # s /\ request'[t] = request[t] /\ request[t].key # r.key
        BY <1>2, <2>1, <2>3 DEF RowsGuarded
      <3>2. request[t].key \in Keys
        BY <2>3, <3>1, FreeSlots DEF TypeOK, Requests
      <3> QED  BY <1>8, <2>3, <3>1, <3>2 DEF RowsGuarded
    <2>4. ASSUME NEW t \in Slots, request'[t].at = "lookup"
          PROVE  rows'[request'[t].key] # NoRow
      <3>1. t # s /\ request'[t] = request[t] /\ request[t].at = "lookup"
        BY <2>1, <2>4
      <3>2. request[t].key \in Keys
        <4>1. request[t] # NoRequest /\ request[t] \in Requests /\ Fits(request[t])
          BY <3>1, FreeSlots DEF TypeOK, HandlersMatch
        <4> QED  BY <3>1, <4>1 DEF Fits, Requests
      <3> QED  BY <1>4, <1>8, <3>1, <3>2, KeysAssumption DEF RowsGuarded, Keys
    <2> QED  BY <2>2, <2>3, <2>4 DEF RowsGuarded, Unresolved
  <1>11. AnswersTrue'
    <2>1. ASSUME NEW t \in Slots,
                 request'[t].tx = "committed" \/ request'[t].status = 201
          PROVE  \E o \in orders' : /\ o.id = request'[t].order
                                    /\ o.key = request'[t].key
                                    /\ o.asked = request'[t].payload
      <3>1. CASE t = s
        BY <1>1, <1>3, <1>5, <2>1, <3>1 DEF q
      <3>2. CASE t # s
        BY <1>1, <1>5, <2>1, <3>2 DEF AnswersTrue
      <3> QED  BY <3>1, <3>2
    <2> QED  BY <2>1 DEF AnswersTrue
  <1>12. RecordsComplete'
    <2>1. ASSUME NEW k \in Keys, rows'[k] # NoRow
          PROVE  \E o \in orders' : /\ o.id = rows'[k].order /\ o.key = k
                                    /\ o.asked = rows'[k].payload
      <3>1. CASE k = r.key
        BY <1>1, <1>3, <1>4, <1>8, <3>1, KeysAssumption DEF Keys
      <3>2. CASE k # r.key
        BY <1>1, <1>8, <2>1, <3>2 DEF RecordsComplete
      <3> QED  BY <3>1, <3>2
    <2>2. ASSUME NEW o \in orders', o.key \in Keys
          PROVE  rows'[o.key].order = o.id
      <3>1. CASE o = new
        BY <1>3, <1>4, <1>8, <2>2, <3>1, KeysAssumption DEF Keys
      <3>2. CASE o \in orders
        <4>1. rows[o.key].order = o.id /\ 1 <= o.id
          BY <2>2, <3>2 DEF RecordsComplete, NumbersMatch
        <4>2. o.key # r.key
          BY <1>7, <2>2, <4>1, KeysAssumption DEF NoRow, Keys
        <4> QED  BY <1>8, <2>2, <4>1, <4>2
      <3> QED  BY <1>1, <2>2, <3>1, <3>2
    <2> QED  BY <2>1, <2>2 DEF RecordsComplete
  <1> QED  BY <1>9, <1>10, <1>11, <1>12
-----------------------------------------------------------------------------
(* Intents and keys.                                                       *)

\* Whatever has a claim has the types of one.
LEMMA ClaimTyped ==
    ASSUME TypeOK, NEW c \in Claims
    PROVE  /\ c.key \in Keys \cup {NoKey}
           /\ c.intent \in (Pages \cup {Nobody}) \X Nat
  <1>1. ASSUME NEW s \in Slots, request[s] # NoRequest
        PROVE  /\ request[s].key \in Keys \cup {NoKey}
               /\ request[s].intent \in (Pages \cup {Nobody}) \X Nat
    BY <1>1 DEF TypeOK, Requests
  <1>2. ASSUME NEW o \in orders
        PROVE  /\ o.key \in Keys \cup {NoKey}
               /\ o.intent \in (Pages \cup {Nobody}) \X Nat
    BY <1>2 DEF TypeOK, Orders
  <1> QED  BY <1>1, <1>2 DEF Claims, Claim

\* A step of a slot claims nothing: a commit passes the claim of the request
\* on to the order.
LEMMA SlotClaims ==
    ASSUME IInv, NEW s \in Slots, SlotStep(s)
    PROVE  Claims' \subseteq Claims
  <1> TypeOK /\ HandlersMatch
    BY DEF IInv
  <1>1. ASSUME NEW t \in Slots, request'[t] # NoRequest
        PROVE  Claim(request'[t]) \in Claims
    <2>1. /\ request[t] # NoRequest
          /\ request'[t].key = request[t].key
          /\ request'[t].intent = request[t].intent
      BY <1>1, SlotFrame, FreeSlots DEF Same
    <2> QED  BY <2>1 DEF Claims, Claim
  <1>2. ASSUME NEW n \in orders'
        PROVE  Claim(n) \in Claims
    <2>1. CASE n \in orders
      BY <2>1 DEF Claims
    <2>2. CASE n \notin orders
      <3>1. n = OrderOf(request[s])
        BY <1>2, <2>2 DEF SlotStep, Handle, Receive, Reserve, Lookup, Insert,
                          Committed, GiveUpOnDatabase, Deliver, DbCommits,
                          DbRollsBack, database
      <3>2. Claim(n) = Claim(request[s]) /\ request[s] # NoRequest
        BY <3>1, SlotFrame, FreeSlots DEF Claim, OrderOf
      <3> QED  BY <3>2 DEF Claims
    <2> QED  BY <2>1, <2>2
  <1>3. ASSUME NEW c \in Claims'
        PROVE  c \in Claims
    BY <1>1, <1>2, <1>3 DEF Claims
  <1> QED  BY <1>3

\* Nor do clients, unless they send a request.
LEMMA QuietClaims ==
    ASSUME Quiet, Requantified
    PROVE  Claims' \subseteq Claims
  <1>1. ASSUME NEW t \in Slots, request'[t] # NoRequest
        PROVE  Claim(request'[t]) \in Claims
    <2>1. /\ request[t] # NoRequest
          /\ request'[t].key = request[t].key
          /\ request'[t].intent = request[t].intent
      BY <1>1 DEF Quiet, Loose
    <2> QED  BY <2>1 DEF Claims, Claim
  <1>2. ASSUME NEW n \in orders'
        PROVE  Claim(n) \in Claims
    <2>1. PICK o \in orders : n.key = o.key /\ n.intent = o.intent
      BY DEF Requantified
    <2>2. Claim(n) = Claim(o)
      BY <2>1 DEF Claim
    <2> QED  BY <2>2 DEF Claims
  <1>3. ASSUME NEW c \in Claims'
        PROVE  c \in Claims
    BY <1>1, <1>2, <1>3 DEF Claims
  <1> QED  BY <1>3

\* A request that is sent claims its key for its intent.
LEMMA SentClaims ==
    ASSUME UNCHANGED orders, NEW s \in Slots, NEW from, NEW intent, NEW key,
           Sends(s, from, intent, key)
    PROVE  \A c \in Claims' : \/ c \in Claims
                              \/ c.key = key /\ c.intent = intent
  <1>1. ASSUME NEW t \in Slots, request'[t] # NoRequest
        PROVE  \/ Claim(request'[t]) \in Claims
               \/ /\ Claim(request'[t]).key = key
                  /\ Claim(request'[t]).intent = intent
    <2>1. CASE t = s
      BY <2>1 DEF Sends, Claim
    <2>2. CASE t # s
      BY <1>1, <2>2 DEF Sends, Claims
    <2> QED  BY <2>1, <2>2
  <1>2. ASSUME NEW n \in orders'
        PROVE  Claim(n) \in Claims
    BY <1>2 DEF Claims
  <1> QED  BY <1>1, <1>2 DEF Claims

\* What a step does to the form of a page.
Reforms(p, form, pending, shown, order, intent) ==
    /\ \A q \in Pages : q # p => page'[q] = page[q]
    /\ page'[p].form = form /\ page'[p].pending = pending
    /\ page'[p].shown = shown /\ page'[p].order = order
    /\ page'[p].intent = intent

\* The pending key of a page is one of its keys, or none is pending.
LEMMA PendingTyped ==
    ASSUME TypeOK, NEW p \in Pages
    PROVE  /\ page[p].intent \in Nat
           /\ page[p].pending.key \in PageKeys \cup {NoKey}
           /\ page[p].pending # NoPending <=> page[p].pending.key # NoKey
           /\ page[p].pending # NoPending =>
                 page[p].pending.fingerprint \in Payloads
           /\ page[p].form \in Payloads
           /\ NoPending.key = NoKey
           /\ NoPending.fingerprint = "none"
           /\ NoKey \notin PageKeys
  BY KeysAssumption DEF TypeOK, Forms, NoPending

\* The key a submission uses is the pending one, or nobody has it.
LEMMA SubmittedKey ==
    ASSUME IInv, NEW p \in Pages, NEW key \in PendingKeys(p)
    PROVE  \/ page[p].pending = [key |-> key, fingerprint |-> page[p].form]
           \/ /\ page[p].pending = NoPending
              /\ \A c \in Claims : c.key # key
              /\ \A q \in Pages : page[q].pending.key # key
  <1> TypeOK /\ NumbersMatch /\ RecordsComplete /\ FormsMatch
    BY DEF IInv
  <1>1. CASE page[p].pending.fingerprint = page[p].form
    <2>1. key = page[p].pending.key
      BY <1>1 DEF PendingKeys
    <2>2. page[p].pending # NoPending
      BY <1>1, PendingTyped, KeysAssumption
    <2>3. page[p].pending \in [key : PageKeys, fingerprint : Payloads]
      BY <2>2 DEF TypeOK, Forms
    <2> QED  BY <1>1, <2>1, <2>3
  <1>2. CASE page[p].pending.fingerprint # page[p].form
    <2>1. key \in FreshKeys
      BY <1>2 DEF PendingKeys
    <2>2. page[p].pending = NoPending
      BY <1>2 DEF FormsMatch
    <2>3. ASSUME NEW o \in orders, o.key = key
          PROVE  FALSE
      BY <2>1, <2>3 DEF FreshKeys, RecordsComplete, NumbersMatch, Keys, NoRow
    <2>4. \A c \in Claims : c.key # key
      BY <2>1, <2>3 DEF Claims, Claim, FreshKeys
    <2> QED  BY <2>1, <2>2, <2>4 DEF FreshKeys
  <1> QED  BY <1>1, <1>2

\* A submission claims its intent for that key.
LEMMA SubmitIntents ==
    ASSUME IInv, NEW p \in Pages, Submit(p)
    PROVE  ClaimsMatch' /\ PendingMatches' /\ FormsMatch' /\ ConfirmedIsMine'
  <1> TypeOK /\ ClaimsMatch /\ PendingMatches /\ FormsMatch /\ ConfirmedIsMine
    BY DEF IInv
  <1> DEFINE f == page[p]
  <1>1. PICK s \in Slots, key \in PendingKeys(p) :
          /\ Send(s, p, <<p, f.intent>>, key, f.form)
          /\ page' = [page EXCEPT ![p] =
               Filled(f.form, [key |-> key, fingerprint |-> f.form],
                      TRUE, "none", 0, f.intent)]
    BY SubmitStep
  <1>2. /\ Reforms(p, f.form, [key |-> key, fingerprint |-> f.form], "none", 0,
                   f.intent)
        /\ page'[p].loading
    BY <1>1 DEF TypeOK, Reforms, Filled
  <1>3. ~f.loading /\ UNCHANGED orders
    BY DEF Submit, database
  <1>4. key \in PageKeys /\ key \in Keys \cup {NoKey} /\ key # NoKey
    BY PendingKeysTyped, KeysAssumption DEF Keys
  <1>5. Sends(s, p, <<p, f.intent>>, key)
    BY <1>1, <1>4, PendingTyped, SendFrame
  <1>6. \A c \in Claims' : \/ c \in Claims
                           \/ c.key = key /\ c.intent = <<p, f.intent>>
    BY <1>3, <1>5, SentClaims
  <1>7. ASSUME NEW c \in Claims
        PROVE  c.key = key <=> c.intent = <<p, f.intent>>
    <2>1. c.intent = <<p, f.intent>> =>
             c.key = f.pending.key /\ c.key \in PageKeys
      BY PendingTyped DEF ClaimsMatch, PendingMatches
    <2>2. CASE f.pending = [key |-> key, fingerprint |-> f.form]
      BY <1>4, <2>1, <2>2 DEF PendingMatches
    <2>3. CASE f.pending = NoPending /\ \A d \in Claims : d.key # key
      BY <2>1, <2>3, PendingTyped
    <2> QED  BY <2>2, <2>3, SubmittedKey
  <1>8. ClaimsMatch'
    <2>1. ASSUME NEW c \in Claims'
          PROVE  c.key \in PageKeys <=> c.intent[1] \in Pages
      BY <1>4, <1>6 DEF ClaimsMatch
    <2>2. ASSUME NEW c \in Claims', NEW d \in Claims', c.key \in PageKeys
          PROVE  c.key = d.key <=> c.intent = d.intent
      BY <1>4, <1>6, <1>7, <2>2 DEF ClaimsMatch
    <2> QED  BY <2>1, <2>2 DEF ClaimsMatch
  <1>9. PendingMatches'
    <2>1. /\ page'[p].intent = f.intent /\ page'[p].pending.key = key
          /\ \A q \in Pages : q # p => page'[q] = page[q]
      BY <1>2 DEF Reforms
    <2>2. f.intent \in Nat
      BY PendingTyped
    <2>3. \A q \in Pages : q # p => page[q].pending.key # key
      <3>1. CASE f.pending = [key |-> key, fingerprint |-> f.form]
        BY <1>4, <3>1, PendingTyped DEF PendingMatches
      <3>2. CASE \A q \in Pages : page[q].pending.key # key
        BY <3>2
      <3> QED  BY <3>1, <3>2, SubmittedKey
    <2>4. ASSUME NEW q \in Pages, NEW c \in Claims', c.intent[1] = q
          PROVE  /\ c.intent[2] <= page'[q].intent
                 /\ c.intent[2] = page'[q].intent => c.key = page'[q].pending.key
      <3>1. CASE c.key = key /\ c.intent = <<p, f.intent>>
        BY <2>1, <2>2, <2>4, <3>1
      <3>2. CASE c \in Claims /\ q # p
        BY <2>1, <2>4, <3>2 DEF PendingMatches
      <3>3. CASE c \in Claims /\ q = p
        <4>1. c.intent = <<c.intent[1], c.intent[2]>>
          BY <3>3, ClaimTyped
        <4> QED  BY <1>7, <2>1, <2>4, <3>3, <4>1 DEF PendingMatches
      <3> QED  BY <1>6, <3>1, <3>2, <3>3
    <2>5. ASSUME NEW q \in Pages, NEW c \in Claims',
                 c.key = page'[q].pending.key, c.key # NoKey
          PROVE  c.intent = <<q, page'[q].intent>>
      <3>1. CASE q = p
        BY <1>6, <1>7, <2>1, <2>5, <3>1
      <3>2. CASE q # p
        <4>1. c \in Claims
          BY <1>6, <2>1, <2>3, <2>5, <3>2
        <4> QED  BY <2>1, <2>5, <3>2, <4>1 DEF PendingMatches
      <3> QED  BY <3>1, <3>2
    <2>6. ASSUME NEW q \in Pages, NEW u \in Pages,
                 page'[q].pending.key = page'[u].pending.key,
                 page'[q].pending # NoPending
          PROVE  q = u
      BY <2>1, <2>3, <2>6 DEF PendingMatches
    <2> QED  BY <2>4, <2>5, <2>6 DEF PendingMatches
  <1>10. FormsMatch'
    <2>1. \A t \in Slots : request[t].at # "closed" => request[t].from # p
      BY <1>3 DEF FormsMatch
    <2>2. /\ request'[s].from = p /\ request'[s].intent = <<p, f.intent>>
          /\ \A t \in Slots : t # s => request'[t] = request[t]
      BY <1>5 DEF Sends
    <2>3. [key |-> key, fingerprint |-> f.form] # NoPending
      BY <1>4 DEF NoPending
    <2> DEFINE pending == [key |-> key, fingerprint |-> f.form]
    <2>4. pending.fingerprint = f.form
      OBVIOUS
    <2> HIDE DEF pending
    <2> QED  BY <1>2, <2>1, <2>2, <2>3, <2>4 DEF FormsMatch, Reforms, pending
  <1>11. ConfirmedIsMine'
    BY <1>2, <1>3 DEF ConfirmedIsMine, Reforms
  <1> QED  BY <1>8, <1>9, <1>10, <1>11

\* A page waits for no other request.
NoNewWait ==
    \A t \in Slots : request'[t].from \in Pages /\ request'[t].at # "closed" =>
        /\ request[t].from = request'[t].from /\ request[t].at # "closed"
        /\ request[t].intent = request'[t].intent

\* A page keeps its pending key and its intent, or drops the key and goes on
\* to the next intent.
Proceeds(p) ==
    /\ \A q \in Pages : q # p => page'[q] = page[q]
    /\ \/ /\ page'[p].pending = page[p].pending
          /\ page'[p].intent = page[p].intent
       \/ /\ page'[p].pending = NoPending
          /\ page'[p].intent = page[p].intent + 1

\* Nothing is claimed anew.
LEMMA ClaimsKept ==
    ASSUME ClaimsMatch, Claims' \subseteq Claims
    PROVE  ClaimsMatch'
  BY DEF ClaimsMatch

\* Then nothing is known of the later intents, nor of a pending key.
LEMMA PendingKept ==
    ASSUME TypeOK, PendingMatches, Claims' \subseteq Claims,
           \/ UNCHANGED page
           \/ \E p \in Pages : Proceeds(p)
    PROVE  PendingMatches'
  <1>1. CASE UNCHANGED page
    BY <1>1 DEF PendingMatches
  <1>2. ASSUME NEW p \in Pages, Proceeds(p)
        PROVE  PendingMatches'
    <2>1. \A q \in Pages : q # p => page'[q] = page[q]
      BY <1>2 DEF Proceeds
    <2>2. CASE /\ page'[p].pending = page[p].pending
               /\ page'[p].intent = page[p].intent
      <3>1. \A q \in Pages : /\ page'[q].pending = page[q].pending
                             /\ page'[q].intent = page[q].intent
        BY <2>1, <2>2
      <3> QED  BY <3>1 DEF PendingMatches
    <2>3. CASE /\ page'[p].pending = NoPending
               /\ page'[p].intent = page[p].intent + 1
      <3>1. ASSUME NEW q \in Pages, NEW c \in Claims', c.intent[1] = q
            PROVE  /\ c.intent[2] <= page'[q].intent
                   /\ c.intent[2] = page'[q].intent =>
                         c.key = page'[q].pending.key
        <4>1. CASE q # p
          BY <2>1, <3>1, <4>1 DEF PendingMatches
        <4>2. CASE q = p
          <5>1. c.intent[2] <= page[p].intent /\ c.intent[2] \in Nat
            BY <3>1, <4>2, ClaimTyped DEF PendingMatches
          <5> QED  BY <2>3, <4>2, <5>1, PendingTyped
        <4> QED  BY <4>1, <4>2
      <3>2. ASSUME NEW q \in Pages, NEW c \in Claims',
                   c.key = page'[q].pending.key, c.key # NoKey
            PROVE  c.intent = <<q, page'[q].intent>>
        <4>1. q # p
          BY <2>3, <3>2, PendingTyped
        <4> QED  BY <2>1, <3>2, <4>1 DEF PendingMatches
      <3>3. ASSUME NEW q \in Pages, NEW u \in Pages,
                   page'[q].pending.key = page'[u].pending.key,
                   page'[q].pending # NoPending
            PROVE  q = u
        <4>1. q # p
          BY <2>3, <3>3
        <4>2. u # p
          BY <2>1, <2>3, <3>3, <4>1, PendingTyped
        <4> QED  BY <2>1, <3>3, <4>1, <4>2 DEF PendingMatches
      <3> QED  BY <3>1, <3>2, <3>3 DEF PendingMatches
    <2> QED  BY <1>2, <2>2, <2>3 DEF Proceeds
  <1> QED  BY <1>1, <1>2

\* A page nothing happens to waits for what it waited for.
LEMMA FormsKept ==
    ASSUME FormsMatch, NoNewWait, UNCHANGED page
    PROVE  FormsMatch'
  <1>1. ASSUME NEW p \in Pages, NEW s \in Slots,
               request'[s].from = p, request'[s].at # "closed"
        PROVE  page'[p].loading /\ request'[s].intent = <<p, page'[p].intent>>
    BY <1>1 DEF FormsMatch, NoNewWait
  <1>2. ASSUME NEW p \in Pages, NEW s \in Slots, NEW t \in Slots,
               request'[s].from = p, request'[s].at # "closed",
               request'[t].from = p, request'[t].at # "closed"
        PROVE  s = t
    BY <1>2 DEF FormsMatch, NoNewWait
  <1>3. ASSUME NEW p \in Pages
        PROVE  /\ page'[p].pending # NoPending =>
                     page'[p].pending.fingerprint = page'[p].form
               /\ page'[p].loading => page'[p].pending # NoPending
               /\ page'[p].shown = "created" => page'[p].pending = NoPending
    BY DEF FormsMatch
  <1> QED  BY <1>1, <1>2, <1>3 DEF FormsMatch

\* One page changes, and waits for nothing now.
LEMMA FormsReset ==
    ASSUME FormsMatch, NoNewWait, NEW p \in Pages,
           \A q \in Pages : q # p => page'[q] = page[q],
           \A t \in Slots : request'[t].from = p => request'[t].at = "closed",
           page'[p].pending # NoPending =>
              page'[p].pending.fingerprint = page'[p].form,
           ~page'[p].loading,
           page'[p].shown = "created" => page'[p].pending = NoPending
    PROVE  FormsMatch'
  <1>1. ASSUME NEW q \in Pages, NEW s \in Slots,
               request'[s].from = q, request'[s].at # "closed"
        PROVE  page'[q].loading /\ request'[s].intent = <<q, page'[q].intent>>
    BY <1>1 DEF FormsMatch, NoNewWait
  <1>2. ASSUME NEW q \in Pages, NEW s \in Slots, NEW t \in Slots,
               request'[s].from = q, request'[s].at # "closed",
               request'[t].from = q, request'[t].at # "closed"
        PROVE  s = t
    BY <1>2 DEF FormsMatch, NoNewWait
  <1>3. ASSUME NEW q \in Pages
        PROVE  /\ page'[q].pending # NoPending =>
                     page'[q].pending.fingerprint = page'[q].form
               /\ page'[q].loading => page'[q].pending # NoPending
               /\ page'[q].shown = "created" => page'[q].pending = NoPending
    <2>1. CASE q = p
      BY <2>1
    <2>2. CASE q # p
      BY <2>2 DEF FormsMatch
    <2> QED  BY <2>1, <2>2
  <1> QED  BY <1>1, <1>2, <1>3 DEF FormsMatch

\* A page that is not told of a new order shows the same one, or none.
LEMMA ConfirmedKept ==
    ASSUME ConfirmedIsMine, Requantified, NEW p \in Pages,
           \A q \in Pages : q # p => page'[q] = page[q],
           page'[p].shown = "created" =>
              /\ page[p].shown = "created" /\ page'[p].order = page[p].order
              /\ page'[p].intent = page[p].intent
    PROVE  ConfirmedIsMine'
  <1> SUFFICES ASSUME NEW q \in Pages, page'[q].shown = "created"
               PROVE  \E n \in orders' : /\ n.id = page'[q].order
                                         /\ n.intent = <<q, page'[q].intent - 1>>
    BY DEF ConfirmedIsMine
  <1>1. /\ page[q].shown = "created" /\ page'[q].order = page[q].order
        /\ page'[q].intent = page[q].intent
    OBVIOUS
  <1>2. PICK o \in orders : /\ o.id = page[q].order
                            /\ o.intent = <<q, page[q].intent - 1>>
    BY <1>1 DEF ConfirmedIsMine
  <1>3. PICK n \in orders' : n.id = o.id /\ n.intent = o.intent
    BY DEF Requantified
  <1> QED  BY <1>1, <1>2, <1>3

\* Editing drops the pending key, and with it the intent it was for.
LEMMA EditIntents ==
    ASSUME IInv, NEW p \in Pages, Edit(p)
    PROVE  ClaimsMatch' /\ PendingMatches' /\ FormsMatch' /\ ConfirmedIsMine'
  <1> TypeOK /\ ClaimsMatch /\ PendingMatches /\ FormsMatch /\ ConfirmedIsMine
    BY DEF IInv
  <1> DEFINE f == page[p]
             next == IF f.pending = NoPending THEN f.intent ELSE f.intent + 1
  <1>1. PICK form : page' = [page EXCEPT ![p] =
          Filled(form, NoPending, f.loading, f.shown, f.order, next)]
    BY EditStep
  <1>2. /\ Reforms(p, form, NoPending, f.shown, f.order, next)
        /\ page'[p].loading = f.loading
    BY <1>1 DEF TypeOK, Reforms, Filled
  <1>3. ~f.loading /\ UNCHANGED <<request, orders>>
    BY DEF Edit, database
  <1>4. Quiet /\ Requantified /\ NoNewWait
    BY <1>3, OrdersAlone DEF Quiet, Loose, NoNewWait
  <1>5. Claims' \subseteq Claims
    BY <1>4, QuietClaims
  <1>6. Proceeds(p)
    BY <1>2 DEF Reforms, Proceeds
  <1>7. FormsMatch'
    <2>1. \A t \in Slots : request'[t].from = p => request'[t].at = "closed"
      BY <1>3 DEF FormsMatch
    <2> QED  BY <1>2, <1>3, <1>4, <2>1, FormsReset DEF Reforms
  <1>8. ConfirmedIsMine'
    <2>1. f.shown = "created" => next = f.intent
      BY DEF FormsMatch
    <2> QED  BY <1>2, <1>4, <2>1, ConfirmedKept DEF Reforms
  <1> QED  BY <1>5, <1>6, <1>7, <1>8, ClaimsKept, PendingKept

\* Giving up keeps the key and the intent for a retry.
LEMMA GiveUpIntents ==
    ASSUME IInv, NEW p \in Pages, GiveUp(p)
    PROVE  ClaimsMatch' /\ PendingMatches' /\ FormsMatch' /\ ConfirmedIsMine'
  <1> TypeOK /\ ClaimsMatch /\ PendingMatches /\ FormsMatch /\ ConfirmedIsMine
    BY DEF IInv
  <1> DEFINE f == page[p]
  <1>1. page' = [page EXCEPT ![p] =
          Filled(f.form, f.pending, FALSE, "failed", f.order, f.intent)]
    BY GiveUpStep
  <1>2. /\ Reforms(p, f.form, f.pending, "failed", f.order, f.intent)
        /\ ~page'[p].loading
    BY <1>1 DEF TypeOK, Reforms, Filled
  <1>3. Quiet /\ (\A s \in Slots : request'[s].from # p) /\ UNCHANGED orders
    BY DetachedFrame DEF GiveUp, database
  <1>4. Requantified /\ NoNewWait
    BY <1>3, OrdersAlone, FreeSlots, KeysAssumption DEF Quiet, Loose, NoNewWait
  <1>5. Claims' \subseteq Claims
    BY <1>3, <1>4, QuietClaims
  <1>6. Proceeds(p)
    BY <1>2 DEF Reforms, Proceeds
  <1>7. FormsMatch'
    <2>1. f.pending # NoPending => f.pending.fingerprint = f.form
      BY DEF FormsMatch
    <2> QED  BY <1>2, <1>3, <1>4, <2>1, FormsReset DEF Reforms
  <1>8. ConfirmedIsMine'
    BY <1>2, <1>4, ConfirmedKept DEF Reforms
  <1> QED  BY <1>5, <1>6, <1>7, <1>8, ClaimsKept, PendingKept

\* A reloaded page has forgotten its key and never uses that intent again.
LEMMA ReloadIntents ==
    ASSUME IInv, NEW p \in Pages, Reload(p)
    PROVE  ClaimsMatch' /\ PendingMatches' /\ FormsMatch' /\ ConfirmedIsMine'
  <1> TypeOK /\ ClaimsMatch /\ PendingMatches /\ FormsMatch /\ ConfirmedIsMine
    BY DEF IInv
  <1> DEFINE f == page[p]
  <1>1. page' = [page EXCEPT ![p] =
          Filled(Default, NoPending, FALSE, "none", 0, f.intent + 1)]
    BY ReloadStep
  <1>2. /\ Reforms(p, Default, NoPending, "none", 0, f.intent + 1)
        /\ ~page'[p].loading
    BY <1>1 DEF TypeOK, Reforms, Filled
  <1>3. Quiet /\ (\A s \in Slots : request'[s].from # p) /\ UNCHANGED orders
    BY DetachedFrame DEF Reload, database
  <1>4. Requantified /\ NoNewWait
    BY <1>3, OrdersAlone, FreeSlots, KeysAssumption DEF Quiet, Loose, NoNewWait
  <1>5. Claims' \subseteq Claims
    BY <1>3, <1>4, QuietClaims
  <1>6. Proceeds(p)
    BY <1>2 DEF Reforms, Proceeds
  <1>7. FormsMatch'
    BY <1>2, <1>3, <1>4, FormsReset DEF Reforms
  <1>8. ConfirmedIsMine'
    BY <1>2, <1>4, ConfirmedKept DEF Reforms
  <1> QED  BY <1>5, <1>6, <1>7, <1>8, ClaimsKept, PendingKept

\* Callers of the API have keys and intents of no page.
LEMMA CallerIntents ==
    ASSUME IInv, NEW s \in Slots, CallerSends(s)
    PROVE  ClaimsMatch' /\ PendingMatches' /\ FormsMatch' /\ ConfirmedIsMine'
  <1> TypeOK /\ ClaimsMatch /\ PendingMatches /\ FormsMatch /\ ConfirmedIsMine
    BY DEF IInv
  <1>1. PICK key \in CallerKeys \cup {NoKey}, payload \in Payloads :
          Send(s, Nobody, <<Nobody, 0>>, key, payload)
    BY DEF CallerSends
  <1>2. Sends(s, Nobody, <<Nobody, 0>>, key)
    BY <1>1, SendFrame DEF Keys
  <1>3. UNCHANGED <<page, orders>>
    BY DEF CallerSends, database
  <1>4. /\ key \notin PageKeys
        /\ <<Nobody, 0>>[1] \notin Pages
    BY KeysAssumption
  <1> DEFINE intent == <<Nobody, 0>>
  <1> HIDE DEF intent
  <1>5. \A c \in Claims' : \/ c \in Claims
                           \/ c.key = key /\ c.intent = intent
    BY <1>2, <1>3, SentClaims DEF intent
  <1>6. intent[1] \notin Pages
    BY <1>4 DEF intent
  <1>7. ClaimsMatch'
    <2>1. ASSUME NEW c \in Claims'
          PROVE  c.key \in PageKeys <=> c.intent[1] \in Pages
      BY <1>4, <1>5, <1>6 DEF ClaimsMatch
    <2>2. ASSUME NEW c \in Claims', NEW d \in Claims', c.key \in PageKeys
          PROVE  c.key = d.key <=> c.intent = d.intent
      <3>1. c \in Claims /\ c.intent[1] \in Pages
        BY <1>4, <1>5, <2>1, <2>2
      <3> QED  BY <1>4, <1>5, <1>6, <2>2, <3>1 DEF ClaimsMatch
    <2> QED  BY <2>1, <2>2 DEF ClaimsMatch
  <1>8. PendingMatches'
    <2>1. ASSUME NEW q \in Pages, NEW c \in Claims', c.intent[1] = q
          PROVE  c \in Claims
      BY <1>5, <1>6, <2>1
    <2>2. ASSUME NEW q \in Pages, NEW c \in Claims',
                 c.key = page[q].pending.key, c.key # NoKey
          PROVE  c \in Claims
      BY <1>4, <1>5, <2>2, PendingTyped
    <2> QED  BY <1>3, <2>1, <2>2 DEF PendingMatches
  <1>9. FormsMatch'
    <2>1. NoNewWait
      BY <1>2, KeysAssumption DEF Sends, NoNewWait
    <2> QED  BY <1>3, <2>1, FormsKept
  <1>10. ConfirmedIsMine'
    BY <1>3 DEF ConfirmedIsMine
  <1> QED  BY <1>7, <1>8, <1>9, <1>10

\* A quantity is nobody's intent.
LEMMA QuantityIntents ==
    ASSUME IInv, UpdateQuantity
    PROVE  ClaimsMatch' /\ PendingMatches' /\ FormsMatch' /\ ConfirmedIsMine'
  <1> TypeOK /\ ClaimsMatch /\ PendingMatches /\ FormsMatch /\ ConfirmedIsMine
    BY DEF IInv
  <1>1. UNCHANGED <<page, request>> /\ Requantified
    BY UpdateQuantityFrame DEF UpdateQuantity
  <1>2. Quiet /\ NoNewWait
    BY <1>1 DEF Quiet, Loose, NoNewWait
  <1>3. Claims' \subseteq Claims
    BY <1>1, <1>2, QuietClaims
  <1>4. ConfirmedIsMine'
    <2> SUFFICES ASSUME NEW p \in Pages
                 PROVE  ConfirmedIsMine'
      BY DEF ConfirmedIsMine
    <2> QED  BY <1>1, ConfirmedKept
  <1> QED  BY <1>1, <1>2, <1>3, <1>4, ClaimsKept, PendingKept, FormsKept

\* The server does nothing to the intents of a page.
LEMMA ServerIntents ==
    ASSUME IInv, NEW s \in Slots, Handle(s) \/ DbCommits(s) \/ DbRollsBack(s)
    PROVE  ClaimsMatch' /\ PendingMatches' /\ FormsMatch' /\ ConfirmedIsMine'
  <1> TypeOK /\ HandlersMatch /\ ClaimsMatch /\ PendingMatches /\ FormsMatch
      /\ ConfirmedIsMine
    BY DEF IInv
  <1>1. UNCHANGED page /\ orders \subseteq orders'
    BY DEF Handle, Receive, Reserve, Lookup, Insert, Committed,
           GiveUpOnDatabase, DbCommits, DbRollsBack, database
  <1>2. SlotStep(s)
    BY DEF SlotStep
  <1>3. Claims' \subseteq Claims
    BY <1>2, SlotClaims
  <1>4. NoNewWait
    BY <1>2, SlotFrame, FreeSlots DEF NoNewWait, Same
  <1>5. ConfirmedIsMine'
    BY <1>1 DEF ConfirmedIsMine
  <1> QED  BY <1>1, <1>3, <1>4, <1>5, ClaimsKept, PendingKept, FormsKept

\* The answer a page takes is the answer to its present intent, and the order
\* it names was created for that intent, because it has the same key.
LEMMA DeliverIntents ==
    ASSUME IInv, NEW s \in Slots, Deliver(s)
    PROVE  ClaimsMatch' /\ PendingMatches' /\ FormsMatch' /\ ConfirmedIsMine'
  <1> TypeOK /\ HandlersMatch /\ ClaimsMatch /\ PendingMatches /\ FormsMatch
      /\ ConfirmedIsMine /\ AnswersTrue
    BY DEF IInv
  <1> DEFINE r == request[s]
  <1>1. SlotStep(s) /\ UNCHANGED orders
    BY DEF SlotStep, Deliver, database
  <1>2. Claims' \subseteq Claims
    BY <1>1, SlotClaims
  <1>3. NoNewWait
    BY <1>1, SlotFrame, FreeSlots DEF NoNewWait, Same
  <1>4. CASE r.from \notin Pages
    <2>1. UNCHANGED page
      BY <1>4 DEF Deliver
    <2>2. ConfirmedIsMine'
      BY <1>1, <2>1 DEF ConfirmedIsMine
    <2> QED  BY <1>2, <1>3, <2>1, <2>2, ClaimsKept, PendingKept, FormsKept
  <1>5. CASE r.from \in Pages
    <2> DEFINE p == r.from
               f == page[p]
    <2>1. p \in Pages /\ f \in Forms
      BY <1>5 DEF TypeOK
    <2>2. page' = [page EXCEPT ![p] = Shown(f, r)]
      BY <1>5 DEF Deliver, TypeOK
    <2>3. r \in Requests /\ r # NoRequest /\ r.at = "answered"
          /\ request'[s].at = "closed"
      BY FreeSlots, DeliverStep, DeliverMoves DEF Moves, Frees
    <2>4. \A t \in Slots : request'[t].from = p => request'[t].at = "closed"
      BY <1>1, <2>1, <2>3, SlotFrame DEF FormsMatch
    <2>5. r.intent = <<p, f.intent>>
      BY <2>1, <2>3 DEF FormsMatch
    <2>6. f.pending # NoPending => f.pending.fingerprint = f.form
      BY <2>1 DEF FormsMatch
    <2>7. \/ /\ r.status = 201
             /\ Reforms(p, Default, NoPending, "created", r.order, f.intent + 1)
             /\ ~page'[p].loading
          \/ /\ Reforms(p, f.form, NoPending, "failed", f.order, f.intent + 1)
             /\ ~page'[p].loading
          \/ /\ Reforms(p, f.form, f.pending, "failed", f.order, f.intent)
             /\ ~page'[p].loading
      <3>1. page'[p] = Shown(f, r) /\ \A q \in Pages : q # p => page'[q] = page[q]
        BY <2>1, <2>2 DEF TypeOK
      <3> HIDE DEF f, p
      <3> QED  BY <2>1, <3>1, ShownForm DEF Reforms, Filled
    <2> HIDE DEF p, f
    <2>8. Proceeds(p)
      BY <2>7 DEF Reforms, Proceeds, f
    <2>9. FormsMatch'
      BY <1>3, <2>1, <2>4, <2>6, <2>7, FormsReset DEF Reforms
    <2>10. ConfirmedIsMine'
      <3>1. CASE /\ r.status = 201
                 /\ Reforms(p, Default, NoPending, "created", r.order,
                            f.intent + 1)
        <4>1. PICK o \in orders : o.id = r.order /\ o.key = r.key
          BY <3>1 DEF AnswersTrue
        <4>2. Claim(o) \in Claims /\ Claim(r) \in Claims
          BY <2>3 DEF Claims
        <4>3. Claim(o).key = Claim(r).key /\ Claim(r).key \in PageKeys
          BY <2>1, <2>5, <4>1, <4>2 DEF ClaimsMatch, Claim
        <4>4. o.intent = <<p, f.intent>>
          BY <2>5, <4>2, <4>3 DEF ClaimsMatch, Claim
        <4>5. /\ page'[p].order = o.id /\ page'[p].intent - 1 = f.intent
              /\ \A q \in Pages : q # p => page'[q] = page[q]
          BY <2>1, <3>1, <4>1, PendingTyped DEF Reforms, f
        <4> QED  BY <1>1, <4>4, <4>5 DEF ConfirmedIsMine
      <3>2. CASE \A q \in Pages : q # p => page'[q] = page[q]
        <4>1. CASE page'[p].shown = "failed"
          BY <1>1, <2>1, <3>2, <4>1, OrdersAlone, ConfirmedKept
        <4> QED  BY <2>7, <3>1, <4>1 DEF Reforms
      <3> QED  BY <2>7, <3>2 DEF Reforms
    <2> QED  BY <1>2, <2>1, <2>8, <2>9, <2>10, ClaimsKept, PendingKept
  <1> QED  BY <1>4, <1>5

-----------------------------------------------------------------------------
(* The invariant is inductive.                                             *)

\* It holds at first, when nothing was sent,
LEMMA InitIInv == Init => IInv
  <1> SUFFICES ASSUME Init PROVE IInv
    OBVIOUS
  <1> USE DEF Init
  <1>1. \A s \in Slots : request[s] = NoRequest
    OBVIOUS
  <1>2. Claims = {}
    BY <1>1 DEF Claims
  <1>3. TypeOK
    <2>1. NewPage(0) \in Forms
      BY KeysAssumption DEF NewPage, Forms
    <2> QED  BY <2>1, KeysAssumption DEF TypeOK
  <1>4. HandlersMatch /\ NumbersMatch /\ RowsGuarded /\ AnswersTrue
    BY <1>1, FreeSlots
       DEF HandlersMatch, NumbersMatch, RowsGuarded, AnswersTrue, Unresolved
  <1>5. RecordsComplete
    BY DEF RecordsComplete
  <1>6. ClaimsMatch
    BY <1>2 DEF ClaimsMatch
  <1>7. /\ \A p \in Pages : /\ page[p].pending = NoPending
                            /\ page[p].shown = "none"
                            /\ ~page[p].loading
    BY DEF NewPage
  <1>8. PendingMatches
    BY <1>2, <1>7 DEF PendingMatches
  <1>9. FormsMatch /\ ConfirmedIsMine
    BY <1>1, <1>7, FreeSlots DEF FormsMatch, ConfirmedIsMine
  <1> QED  BY <1>3, <1>4, <1>5, <1>6, <1>8, <1>9 DEF IInv

\* and every step keeps it.
LEMMA NextIInv == IInv /\ [Next]_vars => IInv'
  <1> SUFFICES ASSUME IInv, [Next]_vars PROVE IInv'
    OBVIOUS
  <1>1. ASSUME NEW p \in Pages, Submit(p) \/ Edit(p) \/ GiveUp(p) \/ Reload(p)
        PROVE  IInv'
    <2>1. ClientStep
      BY <1>1 DEF ClientStep
    <2>2. TypeOK'
      BY <1>1, ClientTypes DEF IInv
    <2> QED  BY <1>1, <2>1, <2>2, ClientHandlers, ClientTables, SubmitIntents,
                EditIntents, GiveUpIntents, ReloadIntents
             DEF IInv
  <1>2. ASSUME NEW s \in Slots, CallerSends(s)
        PROVE  IInv'
    <2>1. ClientStep
      BY <1>2 DEF ClientStep
    <2>2. TypeOK'
      BY <1>2, ClientTypes DEF IInv
    <2> QED  BY <1>2, <2>1, <2>2, ClientHandlers, ClientTables, CallerIntents
             DEF IInv
  <1>3. ASSUME UpdateQuantity
        PROVE  IInv'
    <2>1. ClientStep
      BY <1>3 DEF ClientStep
    <2>2. TypeOK'
      BY <1>3, ClientTypes DEF IInv
    <2> QED  BY <1>3, <2>1, <2>2, ClientHandlers, ClientTables, QuantityIntents
             DEF IInv
  <1>4. ASSUME NEW s \in Slots, SlotStep(s)
        PROVE  IInv'
    <2>1. TypeOK' /\ HandlersMatch'
      BY <1>4, SlotTypes, SlotHandlers
    <2>2. NumbersMatch' /\ RowsGuarded' /\ AnswersTrue' /\ RecordsComplete'
      BY <1>4, InsertTables, ReserveTables, LookupTables, QuietTables,
         CommitTables DEF SlotStep, Handle
    <2>3. ClaimsMatch' /\ PendingMatches' /\ FormsMatch' /\ ConfirmedIsMine'
      BY <1>4, ServerIntents, DeliverIntents DEF SlotStep
    <2> QED  BY <2>1, <2>2, <2>3 DEF IInv
  <1>5. CASE UNCHANGED vars
    <2> USE <1>5 DEF vars
    <2>1. TypeOK' /\ HandlersMatch' /\ NumbersMatch'
      BY DEF IInv, TypeOK, HandlersMatch, NumbersMatch
    <2>2. RowsGuarded' /\ AnswersTrue' /\ RecordsComplete'
      BY DEF IInv, RowsGuarded, AnswersTrue, RecordsComplete
    <2>3. Claims' = Claims
      BY DEF Claims
    <2>4. ClaimsMatch' /\ PendingMatches'
      BY <2>3 DEF IInv, ClaimsMatch, PendingMatches
    <2>5. FormsMatch' /\ ConfirmedIsMine'
      BY DEF IInv, FormsMatch, ConfirmedIsMine
    <2> QED  BY <2>1, <2>2, <2>4, <2>5 DEF IInv
  <1> QED  BY <1>1, <1>2, <1>3, <1>4, <1>5 DEF Next, SlotStep

\* So it always holds.
LEMMA Invariance == Spec => []IInv
  BY InitIInv, NextIInv, PTL DEF Spec

\* Two orders of one intent would have one key, a key of the page; the row of
\* that key names one number, and a number is given to one order.
LEMMA IInvOneOrder == IInv => OneOrderPerIntent
  <1> SUFFICES ASSUME IInv, NEW a \in orders, NEW b \in orders,
                      a.intent = b.intent, a.intent[1] \in Pages
               PROVE  a = b
    BY DEF OneOrderPerIntent
  <1>1. Claim(a) \in Claims /\ Claim(b) \in Claims
    BY DEF Claims
  <1>2. a.key \in PageKeys /\ a.key = b.key
    BY <1>1 DEF IInv, ClaimsMatch, Claim
  <1>3. rows[a.key].order = a.id /\ rows[a.key].order = b.id
    BY <1>2 DEF IInv, RecordsComplete, Keys
  <1> QED  BY <1>3 DEF IInv, NumbersMatch

\* The state of the form, of the requests and of the tables has its type: in
\* particular a page's pending key is one it made, and no handler is anywhere
\* but at a point of Program.cs.
THEOREM TypeCorrect == Spec => []TypeOK
  <1>1. IInv => TypeOK
    BY DEF IInv
  <1> QED  BY <1>1, Invariance, PTL

\* What a page was asked for is ordered at most once (the retry message of
\* app.js), for any number of pages, requests and other callers, whatever was
\* lost, late, timed out or committed after its 503.
THEOREM OneOrderCorrect == Spec => []OneOrderPerIntent
  BY IInvOneOrder, Invariance, PTL

\* An order shown as created by createOrder of app.js exists and is the one
\* the page last asked for.
THEOREM ConfirmedCorrect == Spec => []ConfirmedIsMine
  <1>1. IInv => ConfirmedIsMine
    BY DEF IInv
  <1> QED  BY <1>1, Invariance, PTL

\* CreateOrderIdempotentlyAsync keeps the two tables in agreement: a committed
\* row of order_requests names the order created with it, and every order with
\* a key has its row.
THEOREM RecordsCorrect == Spec => []RecordsComplete
  <1>1. IInv => RecordsComplete
    BY DEF IInv
  <1> QED  BY <1>1, Invariance, PTL

-----------------------------------------------------------------------------
(* Numbers stay within the requests sent.                                  *)

\* Requests that have no number yet may still be given one each.
LEMMA NumberlessStep ==
    ASSUME TypeOK, NumbersLast,
           \/ /\ sequence' = sequence /\ sent' = sent
              /\ Numberless' \subseteq Numberless
           \/ /\ sequence' = sequence /\ sent' = sent + 1
              /\ \E s \in Slots : Numberless' \subseteq Numberless \cup {s}
           \/ /\ sequence' = sequence + 1 /\ sent' = sent
              /\ \E s \in Numberless : Numberless' \subseteq Numberless \ {s}
    PROVE  NumbersLast'
  <1> DEFINE N == Numberless
             M == Numberless'
  <1> HIDE DEF N, M
  <1>1. IsFiniteSet(N) /\ sequence + Cardinality(N) <= sent + 1
    BY DEF NumbersLast, N
  <1>2. Cardinality(N) \in Nat /\ sequence \in Nat /\ sent \in Nat
    BY <1>1, FS_CardinalityType, KeysAssumption DEF TypeOK
  <1>3. SUFFICES IsFiniteSet(M) /\ sequence' + Cardinality(M) <= sent' + 1
    BY DEF NumbersLast, M
  <1>4. CASE /\ sequence' = sequence /\ sent' = sent
             /\ M \subseteq N
    <2>1. IsFiniteSet(M) /\ Cardinality(M) <= Cardinality(N)
          /\ Cardinality(M) \in Nat
      BY <1>1, <1>4, FS_Subset, FS_CardinalityType
    <2> QED  BY <1>1, <1>2, <1>4, <2>1
  <1>5. CASE /\ sequence' = sequence /\ sent' = sent + 1
             /\ \E s \in Slots : M \subseteq N \cup {s}
    <2>1. PICK s \in Slots : M \subseteq N \cup {s}
      BY <1>5
    <2>2. /\ IsFiniteSet(N \cup {s})
          /\ Cardinality(N \cup {s}) <= Cardinality(N) + 1
      <3>1. /\ IsFiniteSet(N \cup {s})
            /\ \/ Cardinality(N \cup {s}) = Cardinality(N)
               \/ Cardinality(N \cup {s}) = Cardinality(N) + 1
        BY <1>1, FS_AddElement, Zenon
      <3> QED  BY <1>2, <3>1
    <2>3. IsFiniteSet(M) /\ Cardinality(M) <= Cardinality(N \cup {s})
      BY <2>1, <2>2, FS_Subset
    <2>4. Cardinality(M) \in Nat /\ Cardinality(N \cup {s}) \in Nat
      BY <2>2, <2>3, FS_CardinalityType
    <2> QED  BY <1>1, <1>2, <1>5, <2>2, <2>3, <2>4
  <1>6. CASE /\ sequence' = sequence + 1 /\ sent' = sent
             /\ \E s \in N : M \subseteq N \ {s}
    <2>1. PICK s \in N : M \subseteq N \ {s}
      BY <1>6
    <2>2. /\ IsFiniteSet(N \ {s})
          /\ Cardinality(N \ {s}) = Cardinality(N) - 1
      BY <1>1, <2>1, FS_RemoveElement
    <2>3. IsFiniteSet(M) /\ Cardinality(M) <= Cardinality(N \ {s})
      BY <2>1, <2>2, FS_Subset
    <2>4. Cardinality(M) \in Nat
      BY <2>3, FS_CardinalityType
    <2> QED  BY <1>1, <1>2, <1>6, <2>2, <2>3, <2>4
  <1> QED  BY <1>4, <1>5, <1>6 DEF N, M

\* A request takes a number of the sequence once at most.
LEMMA NextNumbers ==
    ASSUME IInv, NumbersLast, [Next]_vars
    PROVE  NumbersLast'
  <1> TypeOK /\ HandlersMatch
    BY DEF IInv
  <1>1. ASSUME Quiet, UNCHANGED <<sequence, sent>>
        PROVE  NumbersLast'
    <2>1. Numberless' \subseteq Numberless
      BY <1>1, FreeSlots DEF Quiet, Loose, Numberless
    <2> QED  BY <1>1, <2>1, NumberlessStep
  <1>2. ASSUME NEW s \in Slots, NEW from, NEW intent, NEW key,
               Sends(s, from, intent, key), sent' = sent + 1, UNCHANGED sequence
        PROVE  NumbersLast'
    <2>1. Numberless' \subseteq Numberless \cup {s}
      BY <1>2 DEF Sends, Numberless
    <2> QED  BY <1>2, <2>1, NumberlessStep
  <1>3. ASSUME NEW p \in Pages, Submit(p)
        PROVE  NumbersLast'
    <2>1. PICK s \in Slots, key \in PendingKeys(p) :
            Send(s, p, <<p, page[p].intent>>, key, page[p].form)
      BY <1>3, SubmitStep
    <2>2. Sends(s, p, <<p, page[p].intent>>, key)
      BY <2>1, PendingKeysTyped, PendingTyped, SendFrame DEF Keys
    <2> QED  BY <1>2, <1>3, <2>1, <2>2 DEF Send, Submit, database
  <1>4. ASSUME NEW s \in Slots, CallerSends(s)
        PROVE  NumbersLast'
    <2>1. PICK key \in CallerKeys \cup {NoKey}, payload \in Payloads :
            Send(s, Nobody, <<Nobody, 0>>, key, payload)
      BY <1>4 DEF CallerSends
    <2>2. Sends(s, Nobody, <<Nobody, 0>>, key)
      BY <2>1, SendFrame DEF Keys
    <2> QED  BY <1>2, <1>4, <2>1, <2>2 DEF Send, CallerSends, database
  <1>5. ASSUME NEW p \in Pages, Edit(p) \/ GiveUp(p) \/ Reload(p)
        PROVE  NumbersLast'
    <2>1. Quiet
      BY <1>5, DetachedFrame DEF Edit, GiveUp, Reload, Quiet, Loose
    <2> QED  BY <1>1, <1>5, <2>1 DEF Edit, GiveUp, Reload, database
  <1>6. CASE UpdateQuantity
    BY <1>1, <1>6 DEF UpdateQuantity, Quiet, Loose
  <1>7. CASE UNCHANGED vars
    BY <1>1, <1>7 DEF vars, Quiet, Loose
  <1>8. ASSUME NEW s \in Slots, Insert(s)
        PROVE  NumbersLast'
    <2>1. s \in Numberless
      BY <1>8, InsertMoves DEF Numberless
    <2>2. Numberless' \subseteq Numberless \ {s}
      BY <1>8, InsertMoves DEF Moves, Numberless
    <2> QED  BY <1>8, <2>1, <2>2, NumberlessStep DEF Insert
  <1>9. ASSUME NEW s \in Slots, SlotStep(s), ~Insert(s)
        PROVE  NumbersLast'
    <2>1. UNCHANGED <<sequence, sent>>
      BY <1>9 DEF SlotStep, Handle, Receive, Reserve, Lookup, Insert,
                  Committed, GiveUpOnDatabase, Deliver, DbCommits,
                  DbRollsBack, database
    <2>2. request'[s].at \in {"sent", "received", "reserve", "lookup", "insert"}
             => s \in Numberless
      <3> DEFINE r == request[s]
      <3> USE DEF Moves, Frees, Numberless
      <3>1. CASE Receive(s)
        BY <3>1, ReceiveMoves
      <3>2. CASE Reserve(s)
        BY <3>2, ReserveMoves
      <3>3. CASE Lookup(s)
        BY <3>3, LookupMoves
      <3>4. CASE Committed(s)
        BY <3>4, CommittedMoves
      <3>5. CASE GiveUpOnDatabase(s)
        BY <3>5, GiveUpOnDatabaseMoves
      <3>6. CASE Deliver(s)
        BY <3>6, DeliverMoves, FreeSlots
      <3>7. ASSUME NEW outcome, Unresolved(r), EndTx(s, outcome)
            PROVE  request'[s].at \in
                      {"sent", "received", "reserve", "lookup", "insert"}
                      => s \in Numberless
        BY <3>7, EndTxMoves, FreeSlots
      <3>8. CASE DbCommits(s) \/ DbRollsBack(s)
        BY <3>7, <3>8 DEF DbCommits, DbRollsBack, Unresolved
      <3> QED  BY <1>9, <3>1, <3>2, <3>3, <3>4, <3>5, <3>6, <3>8
               DEF SlotStep, Handle
    <2>3. \A t \in Slots : t # s => request'[t] = request[t]
      BY <1>9, SlotFrame
    <2>4. Numberless' \subseteq Numberless
      BY <2>2, <2>3 DEF Numberless
    <2> QED  BY <2>1, <2>4, NumberlessStep
  <1> QED  BY <1>3, <1>4, <1>5, <1>6, <1>7, <1>8, <1>9 DEF Next, SlotStep

\* The invariant with the bound on the numbers.
LEMMA NumbersInvariance == Spec => [](IInv /\ NumbersLast)
  <1>1. Init => NumbersLast
    <2> SUFFICES ASSUME Init PROVE NumbersLast
      OBVIOUS
    <2>1. Numberless = {}
      BY FreeSlots DEF Init, Numberless
    <2>2. sequence = 1 /\ sent = 0
      BY DEF Init
    <2> QED  BY <2>1, <2>2, FS_EmptySet DEF NumbersLast
  <1>2. (IInv /\ NumbersLast) /\ [Next]_vars => (IInv /\ NumbersLast)'
    BY NextIInv, NextNumbers
  <1> QED  BY <1>1, <1>2, InitIInv, PTL DEF Spec

-----------------------------------------------------------------------------
(* The protocol implements OnceOnly.                                       *)

\* The requests, as OnceOnly sees them.
Heard  == [s \in Slots |-> Said(request[s])]
\* The orders, as OnceOnly sees them.
Ledger == {Booked(o) : o \in orders}

\* Said of two requests is the same if they ask and are answered the same.
LEMMA SaidSame ==
    ASSUME NEW q, NEW r, q # NoRequest, r # NoRequest, q.key = r.key,
           q.payload = r.payload, q.status = r.status,
           r.status = 201 => q.order = r.order
    PROVE  Said(q) = Said(r)
  BY DEF Said

\* Nothing is said of a free slot only.
LEMMA SaidFree ==
    /\ Said(NoRequest) = Once!Closed
    /\ \A r \in Requests : /\ r # NoRequest
                           /\ Said(r) # Once!Closed
                           /\ Said(r).key = r.key /\ Said(r).payload = r.payload
                           /\ Said(r).status = r.status
  <1>1. Said(NoRequest) = Once!Closed
    BY DEF Said, Once!Closed
  <1>2. ASSUME NEW r \in Requests
        PROVE  /\ r # NoRequest
               /\ Said(r).key = r.key /\ Said(r).payload = r.payload
               /\ Said(r).status = r.status
    BY FreeSlots DEF Said
  <1>3. ASSUME NEW r \in Requests
        PROVE  Said(r) # Once!Closed
    <2>1. Said(r).payload # "none"
      BY <1>2, KeysAssumption DEF Requests
    <2>2. Once!Closed.payload = "none"
      BY DEF Once!Closed
    <2> QED  BY <2>1, <2>2
  <1> QED  BY <1>1, <1>2, <1>3

\* Only what is said of one slot changes.
LEMMA HeardAt ==
    ASSUME NEW s \in Slots,
           \A t \in Slots : t # s => Said(request'[t]) = Said(request[t])
    PROVE  /\ Heard' = [Heard EXCEPT ![s] = Said(request'[s])]
           /\ Said(request'[s]) = Said(request[s]) => Heard' = Heard
  BY DEF Heard

\* A book entry tells its order.
LEMMA LedgerOf ==
    /\ \A o \in orders : Booked(o) \in Ledger
    /\ \A entry \in Ledger : \E o \in orders :
          /\ entry.id = o.id /\ entry.key = o.key /\ entry.payload = o.asked
    /\ \A o : Booked(o).id = o.id /\ Booked(o).key = o.key
              /\ Booked(o).payload = o.asked
  BY DEF Ledger, Booked

\* A free slot takes a request.
LEMMA SendsAsks ==
    ASSUME TypeOK, UNCHANGED orders, NEW s \in Slots, NEW from, NEW intent,
           NEW key, Sends(s, from, intent, key)
    PROVE  Once!Ask(s)
  <1>1. /\ request[s] = NoRequest
        /\ \A t \in Slots : t # s => request'[t] = request[t]
        /\ request'[s] \in Requests
        /\ request'[s].order = 0 /\ request'[s].status = 0
    BY DEF Sends
  <1>2. Heard[s] = Once!Closed /\ Heard'[s] = Said(request'[s])
    BY <1>1, SaidFree DEF Heard
  <1>3. Heard' = [Heard EXCEPT ![s] = Said(request'[s])]
    BY <1>1, HeardAt
  <1>4. Said(request'[s]) \in Once!Open
    BY <1>1, FreeSlots DEF Said, Once!Open, Requests
  <1>5. UNCHANGED Ledger
    BY DEF Ledger
  <1> QED  BY <1>2, <1>3, <1>4, <1>5 DEF Once!Ask, Heard, Ledger

\* What is said of a request.
Saying(key, payload, status, order) ==
    [key |-> key, payload |-> payload, status |-> status, order |-> order]

\* Only this is said anew, of one slot.
Says(s, key, payload, status, order) ==
    Heard' = [Heard EXCEPT ![s] = Saying(key, payload, status, order)]

\* Each of the four answers is one OnceOnly allows.
LEMMA HeardAnswers ==
    ASSUME NEW s \in Slots, NEW key, NEW payload, NEW status, NEW id,
           Heard[s] = Saying(key, payload, 0, 0),
           Says(s, key, payload, status, id),
           Heard[s] # Once!Closed, Ledger' = Ledger,
           \/ /\ status = 201
              /\ \E entry \in Ledger : /\ entry.id = id /\ entry.key = key
                                       /\ entry.payload = payload
           \/ /\ status = 409 /\ id = 0 /\ key # NoKey
              /\ \E entry \in Ledger : entry.key = key /\ entry.payload # payload
           \/ status = 400 /\ id = 0 /\ payload \notin Valid
           \/ status = 503 /\ id = 0
    PROVE  Once!Answer(s)
  <1> DEFINE h == Heard
             g == Heard'
             l == Ledger
             Reply(st, i) == g = [h EXCEPT ![s].status = st, ![s].order = i]
  <1>1. h = [t \in Slots |-> h[t]]
    BY DEF Heard
  <1>2. h[s].key = key /\ h[s].payload = payload /\ h[s].status = 0
    BY DEF Saying
  <1>3. SUFFICES
          /\ h[s] # Once!Closed
          /\ h[s].status = 0
          /\ Ledger' = Ledger
          /\ \/ \E entry \in {e \in l : e.key = h[s].key} :
                  \/ entry.payload = h[s].payload /\ Reply(201, entry.id)
                  \/ /\ h[s].key # NoKey /\ entry.payload # h[s].payload
                     /\ Reply(409, 0)
             \/ h[s].payload \notin Valid /\ Reply(400, 0)
             \/ Reply(503, 0)
    BY DEF Once!Answer, Once!For, Heard, Ledger
  <1>4. /\ h[s] = Saying(key, payload, 0, 0)
        /\ g = [h EXCEPT ![s] = Saying(key, payload, status, id)]
    BY DEF Says
  <1>5. Reply(status, id)
    <2> DEFINE r1 == Saying(key, payload, status, 0)
               r2 == Saying(key, payload, status, id)
               h1 == [h EXCEPT ![s] = r1]
    <2> HIDE DEF h, g
    <2>1. [h[s] EXCEPT !.status = status] = r1
      BY <1>4 DEF Saying
    <2>2. [r1 EXCEPT !.order = id] = r2
      BY DEF Saying
    <2>3. g = [h EXCEPT ![s] = r2]
      BY <1>4
    <2> HIDE DEF r1, r2
    <2>4. [h EXCEPT ![s].status = status] = h1
      BY <1>1, <2>1
    <2>5. h1 = [t \in Slots |-> h1[t]]
      BY <1>1
    <2>6. h1[s] = r1
      BY <1>1
    <2>7. [h1 EXCEPT ![s] = r2] = [h EXCEPT ![s] = r2]
      <3>1. [h1 EXCEPT ![s] = r2] = [t \in Slots |-> IF t = s THEN r2 ELSE h[t]]
        BY <1>1, <2>5
      <3>2. [h EXCEPT ![s] = r2] = [t \in Slots |-> IF t = s THEN r2 ELSE h[t]]
        BY <1>1
      <3> QED  BY <3>1, <3>2, Zenon
    <2> HIDE DEF h1
    <2>8. [h1 EXCEPT ![s].order = id] = [h1 EXCEPT ![s] = r2]
      BY <2>2, <2>5, <2>6
    <2>9. [h EXCEPT ![s].status = status, ![s].order = id] =
             [h1 EXCEPT ![s].order = id]
      BY <2>4, Zenon
    <2> QED  BY <2>3, <2>7, <2>8, <2>9, Zenon
  <1> HIDE DEF Reply
  <1>6. CASE /\ status = 201
             /\ \E entry \in Ledger : /\ entry.id = id /\ entry.key = key
                                      /\ entry.payload = payload
    BY <1>2, <1>5, <1>6
  <1>7. CASE /\ status = 409 /\ id = 0 /\ key # NoKey
             /\ \E entry \in Ledger : entry.key = key /\ entry.payload # payload
    BY <1>2, <1>5, <1>7
  <1>8. CASE status = 400 /\ id = 0 /\ payload \notin Valid
    BY <1>2, <1>5, <1>8
  <1>9. CASE status = 503 /\ id = 0
    BY <1>2, <1>5, <1>9
  <1> QED  BY <1>6, <1>7, <1>8, <1>9

\* An answer is truthful.
LEMMA MovesAnswers ==
    ASSUME TypeOK, UNCHANGED orders, NEW s \in Slots, request[s].status = 0,
           NEW at, NEW tx, NEW order, NEW status,
           Moves(s, at, tx, order, status),
           \/ /\ status = 201
              /\ \E o \in orders : /\ o.id = order /\ o.key = request[s].key
                                   /\ o.asked = request[s].payload
           \/ /\ status = 409 /\ request[s].key # NoKey
              /\ \E o \in orders : /\ o.key = request[s].key
                                   /\ o.asked # request[s].payload
           \/ status = 400 /\ request[s].payload \notin Valid
           \/ status = 503
    PROVE  Once!Answer(s)
  <1> DEFINE r == request[s]
             id == IF status = 201 THEN order ELSE 0
  <1>1. /\ r \in Requests /\ request'[s] # NoRequest
        /\ \A t \in Slots : t # s => request'[t] = request[t]
        /\ request'[s].key = r.key /\ request'[s].payload = r.payload
        /\ request'[s].status = status /\ request'[s].order = order
    BY DEF Moves, Same
  <1>2. /\ Heard[s] # Once!Closed /\ Heard[s].status = 0
        /\ Heard[s].key = r.key /\ Heard[s].payload = r.payload
    BY <1>1, SaidFree DEF Heard
  <1>3. Said(request'[s]) = Saying(r.key, r.payload, status, id)
    BY <1>1 DEF Said, Saying
  <1>4. Heard[s] = Saying(r.key, r.payload, 0, 0)
    BY <1>1, SaidFree DEF Heard, Said, Saying
  <1>5. Says(s, r.key, r.payload, status, id)
    <2>1. Heard' = [Heard EXCEPT ![s] = Said(request'[s])]
      BY <1>1, HeardAt
    <2> QED  BY <1>3, <2>1, Zenon DEF Says
  <1>6. Ledger' = Ledger
    BY DEF Ledger
  <1>7. CASE /\ status = 201
             /\ \E o \in orders : /\ o.id = order /\ o.key = r.key
                                  /\ o.asked = r.payload
    <2>1. \E entry \in Ledger : /\ entry.id = id /\ entry.key = r.key
                                /\ entry.payload = r.payload
      BY <1>7, LedgerOf
    <2> HIDE DEF id
    <2> QED  BY <1>2, <1>4, <1>5, <1>6, <1>7, <2>1, HeardAnswers
  <1>8. CASE /\ status = 409 /\ r.key # NoKey
             /\ \E o \in orders : o.key = r.key /\ o.asked # r.payload
    <2>1. \E entry \in Ledger : entry.key = r.key /\ entry.payload # r.payload
      BY <1>8, LedgerOf
    <2>2. id = 0
      BY <1>8
    <2> HIDE DEF id
    <2> QED  BY <1>2, <1>4, <1>5, <1>6, <1>8, <2>1, <2>2, HeardAnswers
  <1>9. CASE status \in {400, 503} /\ (status = 400 => r.payload \notin Valid)
    <2>2. id = 0
      BY <1>9
    <2> HIDE DEF id
    <2> QED  BY <1>2, <1>4, <1>5, <1>6, <1>9, <2>2, HeardAnswers
  <1> QED  BY <1>7, <1>8, <1>9

\* Nothing is left to be done for a slot that becomes free.
LEMMA ClosesSlot ==
    ASSUME TypeOK, UNCHANGED Ledger, NEW s \in Slots, request[s] \in Requests,
           request'[s] = NoRequest,
           \A t \in Slots : t # s => Said(request'[t]) = Said(request[t])
    PROVE  Once!Close(s)
  <1>1. Heard[s] # Once!Closed
    BY SaidFree DEF Heard
  <1>2. Heard' = [Heard EXCEPT ![s] = Once!Closed]
    BY HeardAt, SaidFree
  <1> QED  BY <1>1, <1>2 DEF Once!Close, Heard, Ledger

\* A step that says nothing new.
LEMMA MovesSame ==
    ASSUME TypeOK, NEW s \in Slots, NEW at, NEW tx, NEW order,
           Moves(s, at, tx, order, request[s].status),
           request[s].status = 201 => order = request[s].order
    PROVE  Heard' = Heard
  <1>1. Said(request'[s]) = Said(request[s])
    BY SaidSame, FreeSlots DEF Moves, Same
  <1> QED  BY <1>1, HeardAt DEF Moves

\* A step of a page or another caller: a request comes in, or nobody waits for
\* it any more and it may be lost on the way.
LEMMA ClientMaps ==
    ASSUME IInv, ClientStep
    PROVE  \/ UNCHANGED <<Heard, Ledger>>
           \/ \E s \in Slots : Once!Ask(s) \/ Once!Close(s)
  <1> TypeOK /\ HandlersMatch /\ FormsMatch
    BY DEF IInv
  <1>1. ASSUME NEW s \in Slots, NEW from, NEW intent, NEW key,
               Sends(s, from, intent, key), UNCHANGED orders
        PROVE  Once!Ask(s)
    BY <1>1, SendsAsks
  <1>2. ASSUME NEW p \in Pages, NEW lost \in BOOLEAN,
               request' = Detached(p, lost), UNCHANGED orders
        PROVE  \/ UNCHANGED <<Heard, Ledger>>
               \/ \E s \in Slots : Once!Close(s)
    <2>1. /\ Quiet
          /\ \A t \in Slots : request[t].from # p => request'[t] = request[t]
      BY <1>2, DetachedFrame
    <2>2. UNCHANGED Ledger
      BY <1>2 DEF Ledger
    <2>3. ASSUME NEW t \in Slots,
                 ~(request'[t] = NoRequest /\ request[t].at = "sent")
          PROVE  Said(request'[t]) = Said(request[t])
      <3>1. CASE request[t] = NoRequest
        BY <2>1, <2>3, <3>1 DEF Quiet, Loose
      <3>2. CASE request[t] # NoRequest
        BY <2>1, <2>3, <3>2, SaidSame DEF Quiet, Loose
      <3> QED  BY <3>1, <3>2
    <2>4. CASE \E s \in Slots : request'[s] = NoRequest /\ request[s].at = "sent"
      <3>1. PICK s \in Slots : request'[s] = NoRequest /\ request[s].at = "sent"
        BY <2>4
      <3>2. request[s].from = p /\ request[s] \in Requests
        BY <2>1, <3>1, FreeSlots DEF TypeOK
      <3>3. ASSUME NEW t \in Slots, t # s
            PROVE  Said(request'[t]) = Said(request[t])
        BY <2>1, <2>3, <3>1, <3>2, <3>3 DEF FormsMatch
      <3> QED  BY <2>2, <3>1, <3>2, <3>3, ClosesSlot
    <2>5. CASE \A s \in Slots : ~(request'[s] = NoRequest /\ request[s].at = "sent")
      <3>1. Heard' = Heard
        BY <2>3, <2>5 DEF Heard
      <3> QED  BY <2>2, <3>1
    <2> QED  BY <2>4, <2>5
  <1>3. ASSUME NEW p \in Pages, Submit(p)
        PROVE  \E s \in Slots : Once!Ask(s)
    <2>1. PICK s \in Slots, key \in PendingKeys(p) :
            Send(s, p, <<p, page[p].intent>>, key, page[p].form)
      BY <1>3, SubmitStep
    <2>2. Sends(s, p, <<p, page[p].intent>>, key)
      BY <2>1, PendingKeysTyped, PendingTyped, SendFrame DEF Keys
    <2> QED  BY <1>1, <1>3, <2>2 DEF Submit, database
  <1>4. ASSUME NEW s \in Slots, CallerSends(s)
        PROVE  Once!Ask(s)
    <2>1. PICK key \in CallerKeys \cup {NoKey}, payload \in Payloads :
            Send(s, Nobody, <<Nobody, 0>>, key, payload)
      BY <1>4 DEF CallerSends
    <2>2. Sends(s, Nobody, <<Nobody, 0>>, key)
      BY <2>1, SendFrame DEF Keys
    <2> QED  BY <1>1, <1>4, <2>2 DEF CallerSends, database
  <1>5. ASSUME NEW p \in Pages, GiveUp(p) \/ Reload(p)
        PROVE  \/ UNCHANGED <<Heard, Ledger>>
               \/ \E s \in Slots : Once!Close(s)
    BY <1>2, <1>5 DEF GiveUp, Reload, database
  <1>6. CASE \E p \in Pages : Edit(p)
    BY <1>6 DEF Edit, database, Heard, Ledger
  <1>7. CASE UpdateQuantity
    <2>1. UNCHANGED Heard
      BY <1>7 DEF UpdateQuantity, Heard
    <2>2. PICK o \in orders, payload \in Valid :
            orders' = (orders \ {o}) \cup {[o EXCEPT !.payload = payload]}
      BY <1>7 DEF UpdateQuantity
    <2> DEFINE n == [o EXCEPT !.payload = payload]
    <2>3. n.id = o.id /\ n.key = o.key /\ n.asked = o.asked
      BY DEF TypeOK, Orders
    <2> HIDE DEF n
    <2>4. Booked(n) = Booked(o)
      BY <2>3 DEF Booked
    <2>5. orders' = (orders \ {o}) \cup {n}
      BY <2>2 DEF n
    <2>6. Ledger' = Ledger
      <3>1. Ledger' \subseteq Ledger
        BY <2>4, <2>5 DEF Ledger
      <3>2. Ledger \subseteq Ledger'
        BY <2>4, <2>5 DEF Ledger
      <3> QED  BY <3>1, <3>2
    <2> QED  BY <2>1, <2>6
  <1> QED  BY <1>3, <1>4, <1>5, <1>6, <1>7 DEF ClientStep

\* A step of a handler: an answer, or nothing that is said.
LEMMA HandlerMaps ==
    ASSUME IInv, NEW s \in Slots, Handle(s)
    PROVE  UNCHANGED <<Heard, Ledger>> \/ Once!Answer(s)
  <1> TypeOK /\ HandlersMatch /\ AnswersTrue /\ RecordsComplete /\ RowsGuarded
    BY DEF IInv
  <1> DEFINE r == request[s]
  <1>1. UNCHANGED orders
    BY DEF Handle, Receive, Reserve, Lookup, Insert, Committed,
           GiveUpOnDatabase, database
  <1>2. UNCHANGED Ledger
    BY <1>1 DEF Ledger
  <1>3. r \in Requests /\ Fits(r)
    BY SlotFrame, FreeSlots DEF HandlersMatch, SlotStep
  <1>4. CASE Receive(s)
    <2>1. r.status = 0
      BY <1>3, <1>4, ReceiveMoves DEF Fits
    <2> QED  BY <1>1, <1>2, <1>4, <2>1, ReceiveMoves, MovesSame, MovesAnswers
  <1>5. CASE Reserve(s)
    <2>1. r.status = 0
      BY <1>3, <1>5, ReserveMoves DEF Fits, Working
    <2> QED  BY <1>2, <1>5, <2>1, ReserveMoves, MovesSame
  <1>6. CASE Lookup(s)
    <2>1. r.at = "lookup" /\ r.status = 0 /\ r.key \in Keys /\ r.key # NoKey
      BY <1>3, <1>6, LookupMoves DEF Fits, Working, Requests
    <2>2. rows[r.key] # NoRow
      BY <2>1 DEF RowsGuarded
    <2>3. PICK o \in orders : /\ o.id = rows[r.key].order /\ o.key = r.key
                              /\ o.asked = rows[r.key].payload
      BY <2>1, <2>2 DEF RecordsComplete
    <2>4. CASE Moves(s, "answered", r.tx, 0, 503)
      BY <1>1, <2>1, <2>4, MovesAnswers
    <2>5. CASE /\ rows[r.key].payload = r.payload
               /\ Moves(s, "answered", r.tx, rows[r.key].order, 201)
      BY <1>1, <2>1, <2>3, <2>5, MovesAnswers
    <2>6. CASE /\ rows[r.key].payload # r.payload
               /\ Moves(s, "answered", r.tx, 0, 409)
      BY <1>1, <2>1, <2>3, <2>6, MovesAnswers
    <2> QED  BY <1>6, <2>4, <2>5, <2>6, LookupMoves
  <1>7. CASE Insert(s)
    <2>1. r.status = 0
      BY <1>3, <1>7, InsertMoves DEF Fits, Working
    <2> QED  BY <1>2, <1>7, <2>1, InsertMoves, MovesSame
  <1>8. CASE Committed(s)
    <2>1. r.status = 0 /\ r.tx = "committed"
      BY <1>3, <1>8, CommittedMoves DEF Fits, Working
    <2>2. \E o \in orders : /\ o.id = r.order /\ o.key = r.key
                            /\ o.asked = r.payload
      BY <2>1 DEF AnswersTrue
    <2> QED  BY <1>1, <1>8, <2>1, <2>2, CommittedMoves, MovesAnswers
  <1>9. CASE GiveUpOnDatabase(s)
    <2>1. r.status = 0
      BY <1>3, <1>9, GiveUpOnDatabaseMoves DEF Fits
    <2>2. CASE Moves(s, "answered", r.tx, r.order, 503)
      BY <1>1, <2>1, <2>2, MovesAnswers
    <2>3. CASE Moves(s, "answered", "none", 0, 503)
      BY <1>1, <2>1, <2>3, MovesAnswers
    <2> QED  BY <1>9, <2>2, <2>3, GiveUpOnDatabaseMoves
  <1> QED  BY <1>4, <1>5, <1>6, <1>7, <1>8, <1>9 DEF Handle

\* The end of a transaction says nothing, unless it was all that was left.
LEMMA EndTxMaps ==
    ASSUME IInv, NEW s \in Slots, Unresolved(request[s]), NEW outcome,
           EndTx(s, outcome)
    PROVE  Heard' = Heard \/ Heard' = [Heard EXCEPT ![s] = Once!Closed]
  <1> TypeOK /\ HandlersMatch
    BY DEF IInv
  <1> DEFINE r == request[s]
  <1>1. r \in Requests /\ Fits(r) /\ r.at \in Points
    <2>1. r \in Requests /\ r # NoRequest
      BY EndTxStep, FreeSlots
    <2> QED  BY <2>1 DEF HandlersMatch, Requests
  <1>2. CASE r.at \in Working /\ Moves(s, r.at, outcome, r.order, r.status)
    BY <1>2, MovesSame
  <1>3. CASE Frees(s)
    BY <1>3, HeardAt, SaidFree DEF Frees
  <1>4. CASE /\ r.at \notin Working \cup {"closed"}
             /\ Moves(s, r.at, "none", 0, r.status)
    <2>1. r.status # 201
      BY <1>1, <1>4 DEF Fits, Points, Unresolved
    <2> QED  BY <1>4, <2>1, MovesSame
  <1> QED  BY <1>2, <1>3, <1>4, EndTxMoves

\* What PostgreSQL commits is the one order of its key.
LEMMA CommitMaps ==
    ASSUME IInv, NumbersLast, NEW s \in Slots, DbCommits(s)
    PROVE  Once!Create(s)
  <1> TypeOK /\ HandlersMatch /\ NumbersMatch /\ RowsGuarded /\ RecordsComplete
    BY DEF IInv
  <1> DEFINE r == request[s]
             entry == [id |-> r.order, key |-> r.key, payload |-> r.payload]
  <1>1. /\ r.tx = "committing" /\ EndTx(s, "committed")
        /\ orders' = orders \cup {OrderOf(r)} /\ Unresolved(r)
    BY DEF DbCommits, Unresolved
  <1>2. r \in Requests /\ r # NoRequest /\ r.payload \in Valid
    <2>1. r \in Requests /\ r # NoRequest
      BY <1>1, EndTxStep, FreeSlots
    <2> QED  BY <1>1, <2>1 DEF HandlersMatch, Fits
  <1>3. /\ 1 <= r.order /\ r.order < sequence
        /\ \A o \in orders : o.id # r.order
    BY <1>1 DEF NumbersMatch
  <1>4. r.order \in 1..MaxRequests
    <2>1. Cardinality(Numberless) \in Nat /\ sequence \in Nat
          /\ sent \in Nat /\ sent <= MaxRequests /\ MaxRequests \in Nat
          /\ r.order \in Nat
      BY <1>2, FS_CardinalityType, KeysAssumption
         DEF NumbersLast, TypeOK, Requests
    <2> QED  BY <1>3, <2>1 DEF NumbersLast
  <1>5. r.key # NoKey => \A o \in orders : o.key # r.key
    <2>1. ASSUME r.key # NoKey, NEW o \in orders, o.key = r.key
          PROVE  FALSE
      <3>1. r.key \in Keys /\ rows[r.key] = NoRow
        BY <1>1, <1>2, <2>1 DEF RowsGuarded, Requests
      <3>2. o.id = 0
        BY <2>1, <3>1 DEF RecordsComplete, NoRow
      <3> QED  BY <3>2 DEF NumbersMatch
    <2> QED  BY <2>1
  <1>6. Ledger' = Ledger \cup {entry}
    <2>1. Booked(OrderOf(r)) = entry
      BY DEF Booked, OrderOf
    <2> HIDE DEF entry
    <2> QED  BY <1>1, <2>1 DEF Ledger
  <1>7. entry \notin Ledger /\ r.order \notin {e.id : e \in Ledger}
    BY <1>3, LedgerOf
  <1>8. /\ Heard[s] # Once!Closed
        /\ Heard[s].key = r.key /\ Heard[s].payload = r.payload
    BY <1>2, SaidFree DEF Heard
  <1>9. r.key # NoKey => {e \in Ledger : e.key = r.key} = {}
    BY <1>5, LedgerOf
  <1>10. Heard' = Heard \/ Heard' = [Heard EXCEPT ![s] = Once!Closed]
    BY <1>1, EndTxMaps
  <1> DEFINE h == Heard
             g == Heard'
             l == Ledger
             m == Ledger'
             closed == [h EXCEPT ![s] = Once!Closed]
  <1>11. SUFFICES
           /\ h[s] # Once!Closed
           /\ h[s].payload \in Valid
           /\ h[s].key # NoKey => {e \in l : e.key = h[s].key} = {}
           /\ m # l
           /\ \E id \in (1..MaxRequests) \ {e.id : e \in l} :
                m = l \cup {[id |-> id, key |-> h[s].key,
                             payload |-> h[s].payload]}
           /\ g \in {h, closed}
    BY DEF Once!Create, Once!For, Heard, Ledger
  <1>12. \E id \in (1..MaxRequests) \ {e.id : e \in l} :
            m = l \cup {[id |-> id, key |-> h[s].key, payload |-> h[s].payload]}
    BY <1>4, <1>6, <1>7, <1>8
  <1> QED  BY <1>2, <1>6, <1>7, <1>8, <1>9, <1>10, <1>12

\* A step of the protocol is a step of OnceOnly, or says nothing.
LEMMA NextMaps ==
    ASSUME IInv, NumbersLast, [Next]_vars
    PROVE  Once!Next \/ UNCHANGED <<Heard, Ledger>>
  <1> TypeOK /\ HandlersMatch
    BY DEF IInv
  <1>1. CASE ClientStep
    BY <1>1, ClientMaps DEF Once!Next
  <1>2. ASSUME NEW s \in Slots, Handle(s)
        PROVE  Once!Next \/ UNCHANGED <<Heard, Ledger>>
    BY <1>2, HandlerMaps DEF Once!Next
  <1>3. ASSUME NEW s \in Slots, Deliver(s)
        PROVE  Once!Next \/ UNCHANGED <<Heard, Ledger>>
    <2>1. UNCHANGED Ledger
      BY <1>3 DEF Deliver, database, Ledger
    <2>2. CASE Frees(s)
      BY <2>1, <2>2, ClosesSlot DEF Frees, Once!Next
    <2>3. CASE Moves(s, "closed", request[s].tx, request[s].order,
                     request[s].status)
      BY <2>1, <2>3, MovesSame
    <2> QED  BY <1>3, <2>2, <2>3, DeliverMoves
  <1>4. ASSUME NEW s \in Slots, DbCommits(s)
        PROVE  Once!Next \/ UNCHANGED <<Heard, Ledger>>
    BY <1>4, CommitMaps DEF Once!Next
  <1>5. ASSUME NEW s \in Slots, DbRollsBack(s)
        PROVE  Once!Next \/ UNCHANGED <<Heard, Ledger>>
    <2>1. Unresolved(request[s]) /\ EndTx(s, "aborted") /\ UNCHANGED Ledger
      BY <1>5 DEF DbRollsBack, database, Ledger
    <2>2. request[s] \in Requests
      BY <2>1, EndTxStep
    <2>3. CASE Frees(s)
      BY <2>1, <2>3, ClosesSlot DEF Frees, Once!Next
    <2>4. CASE Heard' = Heard
      BY <2>1, <2>4
    <2>5. CASE Heard' = [Heard EXCEPT ![s] = Once!Closed]
      <3>1. Heard[s] # Once!Closed
        BY <2>2, SaidFree DEF Heard
      <3>2. Once!Close(s)
        BY <2>1, <2>5, <3>1 DEF Once!Close, Heard, Ledger
      <3> QED  BY <3>2 DEF Once!Next
    <2> QED  BY <2>1, <2>4, <2>5, EndTxMaps
  <1>6. CASE UNCHANGED vars
    BY <1>6 DEF vars, Heard, Ledger
  <1> QED  BY <1>1, <1>2, <1>3, <1>4, <1>5, <1>6 DEF Next, ClientStep

\* The form, POST /orders and PostgreSQL together keep the promise of OnceOnly:
\* at most one order for a key, a 201 only with the order created for that
\* request, a 409 only for a key of another request, whatever fails on the way.
THEOREM Refinement == Spec => OnceOnlySpec
  <1>1. Init => Once!Init
    <2> SUFFICES ASSUME Init PROVE Once!Init
      OBVIOUS
    <2>1. Heard = [s \in Slots |-> Once!Closed]
      BY SaidFree DEF Init, Heard
    <2>2. Ledger = {}
      BY DEF Init, Ledger
    <2> QED  BY <2>1, <2>2 DEF Once!Init, Heard, Ledger
  <1>2. (IInv /\ NumbersLast) /\ [Next]_vars =>
           [Once!Next]_<<[s \in Slots |-> Said(request[s])],
                         {Booked(o) : o \in orders}>>
    BY NextMaps DEF Heard, Ledger
  <1> QED  BY <1>1, <1>2, NumbersInvariance, PTL
           DEF Spec, OnceOnlySpec, Once!Spec
=============================================================================
