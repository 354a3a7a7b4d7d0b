--------------------------- MODULE ServerRequests ---------------------------
(***************************************************************************)
(* Requests of the node to the controller (core/agent/http.py): at most    *)
(* Limit at a time by a DeferredSemaphore, each with the token of the      *)
(* moment it was asked for, with a login and one more try where the        *)
(* controller answers 401, and state reports sent until they succeed       *)
(* (core/agent/reporting.py).  Beside it the node may get a new identity,  *)
(* tokens expire, requests fail and answers are cut off.  Every operation  *)
(* of the semaphore is one step here, as it is while only the reactor      *)
(* thread makes requests; SharedSemaphore has the requests that the        *)
(* update thread makes at the same time.                                   *)
(***************************************************************************)
EXTENDS Naturals, Sequences, FiniteSets

CONSTANTS
  Request,
  Reports,       \* those a ReportSender repeats
  Limit,         \* PDSERVER_MAX_CONCURRENT_REQUESTS
  NoToken,
  Environments,  \* the sets of Disturbances to check
  MaxIdentity,   \* how often the node is provisioned
  MaxFaults,     \* failing requests
  MaxExpiries    \* times at which the tokens given out so far expire

\* Answers whose connection is lost in the body, tokens that expire, and a node that
\* is provisioned again.
Disturbances == {"cut", "expire", "again"}

ASSUME ServerRequestsAssumption ==
  /\ IsFiniteSet(Request)
  /\ Reports \subseteq Request
  /\ Limit \in Nat \ {0}
  /\ Environments \subseteq SUBSET Disturbances
  /\ MaxIdentity \in Nat \ {0} /\ MaxFaults \in Nat /\ MaxExpiries \in Nat
  /\ NoToken \notin [id : 0 .. MaxIdentity, epoch : 0 .. MaxExpiries]

VARIABLES
  environment,
  sem,         \* the semaphore: free tokens and those who wait
  phase,       \* where each request is
  try,         \* its first try, login or second try, the identity in its URL and the
               \* token in its header (at the login, who logs in)
  token,       \* PDServerRequest.token
  identity,    \* nexus.core.info.pdid and the key, 0 if not provisioned
  epoch,       \* controller: tokens of earlier epochs have expired
  delivered,   \* controller: reports it has received
  excused,     \* history: requests something happened to, see NeverRefusedInVain
  faults

requests == <<sem, phase, try>>
node == <<environment, token, identity>>
controller == <<epoch, delivered>>
vars == <<requests, node, controller, excused, faults>>

Tokens == [id : 0 .. MaxIdentity, epoch : 0 .. MaxExpiries]

TypeOK ==
  /\ environment \in Environments
  /\ sem \in [tokens : Nat, queue : Seq(Request)]
  /\ phase \in [Request -> {"new", "queued", "sent", "hung", "ok", "failed"}]
  /\ try \in [Request -> [stage : {"first", "login", "retry"}, id : 0 .. MaxIdentity,
                          auth : Tokens \cup {NoToken}]]
  /\ token \in Tokens \cup {NoToken}
  /\ identity \in 0 .. MaxIdentity
  /\ epoch \in 0 .. MaxExpiries
  /\ delivered \subseteq Reports
  /\ excused \subseteq Request
  /\ faults \in 0 .. MaxFaults

NoTry == [stage |-> "first", id |-> 0, auth |-> NoToken]

Init ==
  /\ environment \in Environments
  /\ sem = [tokens |-> Limit, queue |-> <<>>]
  /\ phase = [r \in Request |-> "new"]
  /\ try = [r \in Request |-> NoTry]
  /\ token = NoToken
  /\ identity = 0
  /\ epoch = 0
  /\ delivered = {}
  /\ excused = {}
  /\ faults = 0

Underway == {r \in Request : phase[r] \in {"queued", "sent"}}
Hung == {r \in Request : phase[r] = "hung"}
-----------------------------------------------------------------------------
(* DeferredSemaphore *)

\* Faulty variant: nobody waits.
AcquiredAnyway(s, r) == [s EXCEPT !.tokens = @ - 1]

Acquired(s, r) ==
  IF s.tokens = 0 THEN [s EXCEPT !.queue = Append(@, r)] ELSE [s EXCEPT !.tokens = @ - 1]

Released(s) ==
  IF s.queue = <<>> THEN [s EXCEPT !.tokens = @ + 1] ELSE [s EXCEPT !.queue = Tail(@)]

\* The phases after a release: the first of those who wait is sent.
Woken == IF sem.queue = <<>> THEN phase ELSE [phase EXCEPT ![Head(sem.queue)] = "sent"]

Granted(s) == IF s.tokens = 0 THEN "queued" ELSE "sent"
-----------------------------------------------------------------------------
(* Making requests *)

\* PDServerRequest() and request(): the header is made before the semaphore is asked.
Construct(r) ==
  /\ try' = [try EXCEPT ![r] = [stage |-> "first", id |-> identity, auth |-> token]]
  /\ excused' = IF identity = 0 THEN excused \cup {r} ELSE excused \ {r}

\* Faulty variant: a report is given up like other requests.
FreshOnce(r) == phase[r] = "new"

\* A request that is made now, for the first time or by callLater.
Fresh(r) == phase[r] = "new" \/ (phase[r] = "failed" /\ r \in Reports)

\* A request is made, or the next one of a ReportSender after its delay.
Begin(r) ==
  /\ Fresh(r)
  /\ Construct(r)
  /\ sem' = Acquired(sem, r)
  /\ phase' = [phase EXCEPT ![r] = Granted(sem)]
  /\ UNCHANGED <<node, controller, faults>>
-----------------------------------------------------------------------------
(* Answers *)

\* Faulty variant: the semaphore is released after successful requests only.
EndsKeeping(r, how) ==
  /\ sem' = IF how = "ok" THEN Released(sem) ELSE sem
  /\ phase' = IF how = "ok" THEN [Woken EXCEPT ![r] = how] ELSE [phase EXCEPT ![r] = how]
  /\ try' = [try EXCEPT ![r] = NoTry]

\* releaseSemaphore, and the caller gets its result.
Ends(r, how) ==
  /\ sem' = Released(sem)
  /\ phase' = [Woken EXCEPT ![r] = how]
  /\ try' = [try EXCEPT ![r] = NoTry]

\* Faulty variant: the next request is made before the semaphore is released.
GoesOnHolding(r, next, auth) ==
  /\ sem' = IF sem.tokens = 0 THEN Acquired(sem, r) ELSE sem
  /\ phase' = [phase EXCEPT ![r] = Granted(sem)]
  /\ try' = [try EXCEPT ![r].stage = next, ![r].auth = auth]

\* releaseSemaphore, and receiveResponse or cbLogin makes the next request.
GoesOn(r, next, auth) ==
  /\ sem' = Acquired(Released(sem), r)
  /\ phase' = [Woken EXCEPT ![r] = Granted(Released(sem))]
  /\ try' = [try EXCEPT ![r].stage = next, ![r].auth = auth]

Authorized(r) ==
  /\ try[r].auth # NoToken
  /\ try[r].auth.id = try[r].id /\ try[r].id > 0
  /\ try[r].auth.epoch = epoch

Delivers(r) == delivered' = delivered \cup ({r} \cap Reports)

Accepted(r) ==
  /\ phase[r] = "sent" /\ try[r].stage # "login" /\ Authorized(r)
  /\ Delivers(r)
  /\ Ends(r, "ok")
  /\ excused' = excused \ {r}
  /\ UNCHANGED <<node, epoch, faults>>

\* 401 for the first try: log in as whoever the node is now.
Unauthorized(r) ==
  /\ phase[r] = "sent" /\ try[r].stage = "first" /\ ~Authorized(r)
  /\ GoesOn(r, "login", [id |-> identity, epoch |-> epoch])
  /\ UNCHANGED <<node, controller, excused, faults>>

\* Faulty variant: the second try is made with the headers of the first.
LoggedInOldHeader(r) ==
  /\ phase[r] = "sent" /\ try[r].stage = "login" /\ try[r].auth.id > 0
  /\ token' = [id |-> try[r].auth.id, epoch |-> epoch]
  /\ GoesOn(r, "retry", NoToken)
  /\ UNCHANGED <<environment, identity, controller, excused, faults>>

LoggedIn(r) ==
  /\ phase[r] = "sent" /\ try[r].stage = "login" /\ try[r].auth.id > 0
  /\ token' = [id |-> try[r].auth.id, epoch |-> epoch]
  /\ GoesOn(r, "retry", token')
  /\ UNCHANGED <<environment, identity, controller, excused, faults>>

\* The login is refused, or the second try.
Refused(r) ==
  /\ phase[r] = "sent"
  /\ \/ try[r].stage = "login" /\ try[r].auth.id = 0
     \/ try[r].stage = "retry" /\ ~Authorized(r)
  /\ Ends(r, "failed")
  /\ UNCHANGED <<node, controller, excused, faults>>

Answered(r) == Accepted(r) \/ Unauthorized(r) \/ LoggedIn(r) \/ Refused(r)

\* The controller may have carried out a request whose answer is lost.
MayDeliver(r) ==
  UNCHANGED delivered \/ (try[r].stage # "login" /\ Authorized(r) /\ Delivers(r))

\* The connection fails or the controller answers with another error.
Fails(r) ==
  /\ faults < MaxFaults
  /\ faults' = faults + 1
  /\ phase[r] = "sent"
  /\ MayDeliver(r)
  /\ Ends(r, "failed")
  /\ excused' = excused \cup {r}
  /\ UNCHANGED <<node, epoch>>

\* The connection is lost within the body: JSONReceiver raises to its transport,
\* and the Deferred it was given never fires.
CutOff(r) ==
  /\ "cut" \in environment
  /\ phase[r] = "sent"
  /\ phase' = [phase EXCEPT ![r] = "hung"]
  /\ MayDeliver(r)
  /\ UNCHANGED <<sem, try, node, epoch, excused, faults>>
-----------------------------------------------------------------------------
\* The API or provision_self gives the node an identity; resetToken.
Provision ==
  /\ identity = 0 \/ ("again" \in environment /\ identity < MaxIdentity)
  /\ identity' = identity + 1
  /\ token' = NoToken
  /\ excused' = excused \cup Underway
  /\ UNCHANGED <<environment, requests, controller, faults>>

\* Tokens expire: for the second try, that is too late.
Expire ==
  /\ "expire" \in environment
  /\ epoch < MaxExpiries
  /\ epoch' = epoch + 1
  /\ excused' = excused \cup {r \in Underway : try[r].stage = "retry"}
  /\ UNCHANGED <<requests, node, delivered, faults>>

Next ==
  \/ \E r \in Request : Begin(r) \/ Answered(r) \/ Fails(r) \/ CutOff(r)
  \/ Provision \/ Expire

\* Requests are answered in the end, and callLater calls.
Fairness ==
  /\ \A r \in Request : WF_vars(Answered(r))
  /\ \A r \in Reports : WF_vars(phase[r] = "failed" /\ Begin(r))

Spec == Init /\ [][Next]_vars /\ Fairness
-----------------------------------------------------------------------------
\* "Used to control the number of concurrent requests", "Release the semaphore
\* regardless of how the request goes": every token is free or held by a request
\* that is sent, and nobody waits while one is free; answers that were cut off
\* hold theirs for good.  So the assertions of acquire() and release() hold.
SlotsConserved ==
  /\ sem.tokens + Cardinality({r \in Request : phase[r] \in {"sent", "hung"}}) = Limit
  /\ sem.queue # <<>> => sem.tokens = 0

\* "We handle missing, invalid, or expired tokens": a request is given up only if
\* it failed itself, or the node got its identity, or the token expired between
\* login and second try, while it was under way.  What others do with the shared
\* token meanwhile, a login under an earlier identity included, does not matter.
NeverRefusedInVain ==
  \A r \in Request : phase[r] = "failed" => r \in excused

\* Every request ends, as long as fewer answers than there are tokens were cut
\* off: nobody holds a token while he waits for another.
EveryRequestEnds ==
  \A r \in Request :
    r \in Underway ~> r \notin Underway \/ Cardinality(Hung) = Limit

\* A state report of a provisioned node reaches the controller in spite of
\* failing requests, expired tokens and a change of identity, unless answers were
\* cut off: its own, or as many as there are tokens.
ReportsDelivered ==
  \A r \in Reports :
    phase[r] # "new" /\ identity > 0 ~> r \in delivered \cup Hung \/ Cardinality(Hung) = Limit
=============================================================================
