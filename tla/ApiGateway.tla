----------------------------- MODULE ApiGateway -----------------------------
(***************************************************************************)
(* How the console reaches the backend: the gate that probes /api/status   *)
(* and mounts the page once the backend answers (ProofgroveGate), the      *)
(* proxy that mints the browser's id (mintUserCookie), the relay under     *)
(* /api/proofgrove with its public error contract (route.ts, api-errors),  *)
(* and the client that reads it (request, sessionAwareFetch).              *)
(*                                                                         *)
(* A probe or a call is answered in one step and returns in another, so    *)
(* answers overtake each other.  The text of a message is "short" or       *)
(* "long"; what the bounds leave of a long one is "cut".                   *)
(***************************************************************************)
EXTENDS Integers, Sequences, SequencesExt, FiniteSets

CONSTANTS
    Subject,        \* who the gateway may vouch for
    MintedId,       \* the ids mintFallbackId draws
    Body,           \* the failure bodies of the backend, see UpstreamBody
    DetailLimit,    \* MAX_PROBLEM_DETAILS; 8
    Nothing,
    MaxProbes, MaxCalls, MaxActs    \* bounds

VARIABLES
    world,      \* the gateway in front, the backend behind, the tenant context
    gate,       \* ProofgroveGate: its state, the recovery timer, the probe shown
    probes,     \* the probes on their way, in the order they were sent
    sent,       \* how many probes were sent
    jar,        \* the browser's evalai_uid cookie
    calls,      \* the API calls on their way
    made,       \* how many calls were made
    seen,       \* what the last handled request knew of its user
    shown,      \* the last failure the page was given
    loggedOut,  \* logoutStarted
    acts

gateVars == <<gate, probes, sent>>
callVars == <<jar, calls, made, seen, shown, loggedOut>>
gatewayVars == <<world, gateVars, callVars, acts>>

Act == acts < MaxActs /\ acts' = acts + 1

-----------------------------------------------------------------------------
(* The public error contract *)

Text == {"absent", "short", "long", "cut"}
\* boundedText
Bounded(t) == IF t = "long" THEN "cut" ELSE t

\* A failure as the backend writes it: free text, a validation array, a coded
\* problem; an entry is "good" or "bad" (no message).
UpstreamBody ==
    [kind: {"text"}]
    \cup [kind: {"array"}, details: BoundedSeq({"good", "bad"}, DetailLimit + 1)]
    \cup [kind: {"coded"}, code: Text, message: Text, recovery: Text,
          details: BoundedSeq({"good", "bad"}, DetailLimit + 1)]

GatewayAssumption == Body \subseteq UpstreamBody

\* The bound is applied before malformed entries are dropped.
AllDetails(details) == SelectSeq(details, LAMBDA e : e = "good")
Details(details) ==
    SelectSeq(SubSeq(details, 1, IF Len(details) < DetailLimit THEN Len(details) ELSE DetailLimit),
              LAMBDA e : e = "good")

\* publicApiError: safeMessageForStatus, errorCodeForStatus
StatusCopy == [code |-> "short", message |-> "short", recovery |-> "absent", details |-> <<>>,
               generic |-> TRUE]

\* publicApiErrorFromUpstream
PublicError(body) ==
    IF body.kind = "text" THEN StatusCopy
    ELSE LET details == Details(body.details) IN
         IF body.kind = "array" THEN
             IF details = <<>> THEN StatusCopy
             ELSE [StatusCopy EXCEPT !.details = details, !.generic = FALSE]
         ELSE IF body.message = "absent" /\ details = <<>> THEN StatusCopy
         ELSE [code |-> IF body.code = "absent" THEN "short" ELSE Bounded(body.code),
               message |-> IF body.message = "absent" THEN "short" ELSE Bounded(body.message),
               recovery |-> Bounded(body.recovery), details |-> details, generic |-> FALSE]

\* apiErrorFromResponse: the client applies the bounds again, and falls back on
\* the status when a gateway has replaced the body.
ClientError(error) ==
    IF error = Nothing THEN StatusCopy
    ELSE [code |-> Bounded(error.code), message |-> Bounded(error.message),
          recovery |-> Bounded(error.recovery), details |-> Details(error.details),
          generic |-> error.generic]

-----------------------------------------------------------------------------
(* The readiness gate *)

GateState == {"checking", "up", "offline", "session-expired", "permission-denied",
              "service-unavailable", "unprovisioned"}

\* probeProofgrove, classifyProofgroveGate: the status route answers 200 whether
\* the backend is there or not.
Probed(w) ==
    CASE w.front = "offline" -> "offline"
      [] w.front = "expired" -> "session-expired"
      [] w.front = "denied" -> "permission-denied"
      [] w.front = "faulty" -> "service-unavailable"
      [] OTHER -> IF w.backend = "up" THEN "up" ELSE "unprovisioned"

Probe(kind) == [kind |-> kind, active |-> TRUE, number |-> sent + 1, saw |-> Nothing, of |-> Nothing]

\* The recovery effect runs again when the state changes: the poll on its way
\* no longer counts, and the timer starts over unless the backend is up.
Cancelled(ps) ==
    [i \in DOMAIN ps |-> IF ps[i].kind = "poll" THEN [ps[i] EXCEPT !.active = FALSE] ELSE ps[i]]
Shows(state, ps, number, of) ==
    IF state = gate.state THEN gate' = [gate EXCEPT !.number = number, !.of = of] /\ probes' = ps
    ELSE /\ gate' = [state |-> state, due |-> state # "up", number |-> number, of |-> of]
         /\ probes' = Cancelled(ps)

\* setTimeout(tick, POLL_MS)
PollDue ==
    /\ gate.due /\ sent < MaxProbes
    /\ gate' = [gate EXCEPT !.due = FALSE]
    /\ probes' = Append(probes, Probe("poll"))
    /\ sent' = sent + 1
    /\ UNCHANGED <<world, callVars, acts>>

ProbeAnswered(i) ==
    /\ probes[i].saw = Nothing
    /\ probes' = [probes EXCEPT ![i].saw = Probed(world), ![i].of = world.backend]
    /\ UNCHANGED <<world, gate, sent, callVars, acts>>

\* A poll that still counts shows its result and, the state unchanged, sets the
\* timer again; the first probe and a retry's have no such test.
ReArms(p) == TRUE
PollReturns(i) ==
    /\ probes[i].kind = "poll" /\ probes[i].saw # Nothing
    /\ LET p == probes[i]
           rest == RemoveAt(probes, i)
       IN IF ~p.active THEN gate' = gate /\ probes' = rest
          ELSE IF p.saw = gate.state
          THEN gate' = [gate EXCEPT !.due = ReArms(p), !.number = p.number, !.of = p.of]
               /\ probes' = rest
          ELSE Shows(p.saw, rest, p.number, p.of)
    /\ UNCHANGED <<world, sent, callVars, acts>>

CheckReturns(i) ==
    /\ probes[i].kind = "check" /\ probes[i].saw # Nothing
    /\ Shows(probes[i].saw, RemoveAt(probes, i), probes[i].number, probes[i].of)
    /\ UNCHANGED <<world, sent, callVars, acts>>

\* The panel's Retry, offered when waiting does not help.
Retry ==
    /\ Act /\ sent < MaxProbes
    /\ gate.state \in {"session-expired", "permission-denied"}
    /\ gate' = [gate EXCEPT !.state = "checking", !.due = TRUE]
    /\ probes' = Append(Cancelled(probes), Probe("check"))
    /\ sent' = sent + 1
    /\ UNCHANGED <<world, callVars>>

-----------------------------------------------------------------------------
(* Calls *)

\* mintUserCookie: the browser's id is kept while the gateway vouches for it,
\* or for nobody; otherwise the handlers of this request already see the new.
Keeps(cookie, asserted) == cookie # Nothing /\ asserted \in {Nothing, cookie}
KnownAs(cookie, asserted, minted) ==
    IF Keeps(cookie, asserted) THEN cookie
    ELSE IF asserted # Nothing THEN asserted ELSE minted

Request == [known: BOOLEAN, literal: BOOLEAN, mutates: BOOLEAN, sameOrigin: BOOLEAN]

\* The relay refuses before it calls: unknown or non-literal path, a mutation
\* from another origin, no tenant.
Refusal(q) ==
    IF ~q.known \/ ~q.literal THEN 404
    ELSE IF q.mutates /\ ~q.sameOrigin THEN 403
    ELSE IF ~world.tenant THEN 503
    ELSE 0

Call(q) ==
    /\ gate.state = "up" \* the page is mounted
    /\ world.front # "offline"
    /\ Act /\ made < MaxCalls
    /\ made' = made + 1
    /\ calls' = Append(calls, [request |-> q, cookie |-> jar, status |-> 0, error |-> Nothing,
                               from |-> Nothing, sets |-> Nothing])
    /\ UNCHANGED <<world, gateVars, jar, seen, shown, loggedOut>>

\* The session guard in front refuses a call of its own, before the proxy.
GuardRejects(i) ==
    /\ calls[i].status = 0 /\ world.front = "expired"
    /\ calls' = [calls EXCEPT ![i].status = 401]
    /\ UNCHANGED <<world, gateVars, jar, made, seen, shown, loggedOut, acts>>

\* The proxy and the relay handle it; body is what the backend failed with.
Handled(i, minted, body) ==
    /\ calls[i].status = 0 /\ world.front = "open"
    /\ LET q == calls[i].request
           uid == KnownAs(calls[i].cookie, world.subject, minted)
           refusal == Refusal(q)
           status == IF refusal # 0 THEN refusal
                     ELSE IF world.backend # "up" THEN 502
                     ELSE IF body = Nothing THEN 200 ELSE 422
       IN /\ seen' = [user |-> uid, asserted |-> world.subject]
          /\ calls' = [calls EXCEPT
                ![i].status = status,
                ![i].sets = IF uid = calls[i].cookie THEN Nothing ELSE uid,
                ![i].from = IF status = 422 THEN body ELSE Nothing,
                ![i].error = IF status = 200 THEN Nothing
                             ELSE IF status = 422 THEN PublicError(body) ELSE StatusCopy]
    /\ UNCHANGED <<world, gateVars, jar, made, shown, loggedOut, acts>>

\* The answer: the cookie is set, a rejected session starts the logout once,
\* a failure becomes an ApiError.
CallReturns(i) ==
    /\ calls[i].status # 0
    /\ LET c == calls[i]
       IN /\ jar' = IF c.sets = Nothing THEN jar ELSE c.sets
          /\ loggedOut' = (loggedOut \/ c.status = 401)
          /\ shown' = IF c.status = 200 THEN shown
                      ELSE [error |-> ClientError(c.error), from |-> c.from, status |-> c.status]
    /\ calls' = RemoveAt(calls, i)
    /\ UNCHANGED <<world, gateVars, made, seen, acts>>

-----------------------------------------------------------------------------
(* The surroundings *)

BackendTurns(state) ==
    /\ Act /\ world.backend # state
    /\ world' = [world EXCEPT !.backend = state]
    /\ UNCHANGED <<gateVars, callVars>>
FrontTurns(state) ==
    /\ Act /\ world.front # state
    /\ world' = [world EXCEPT !.front = state]
    /\ UNCHANGED <<gateVars, callVars>>
\* A tenant's sign-in is reset: the gateway vouches for someone else.
SignInChanges(s) ==
    /\ Act /\ world.subject # s
    /\ world' = [world EXCEPT !.subject = s]
    /\ UNCHANGED <<gateVars, callVars>>

GatewayInit ==
    /\ world \in [front: {"open"}, backend: {"up", "absent"}, subject: Subject \cup {Nothing},
                  tenant: BOOLEAN]
    /\ gate = [state |-> "checking", due |-> TRUE, number |-> 0, of |-> Nothing]
    /\ probes = <<[kind |-> "check", active |-> TRUE, number |-> 1, saw |-> Nothing,
                   of |-> Nothing]>>
    /\ sent = 1
    /\ jar \in Subject \cup MintedId \cup {Nothing} \* what an earlier visit left
    /\ calls = <<>>
    /\ made = 0
    /\ seen = Nothing
    /\ shown = Nothing
    /\ loggedOut = FALSE
    /\ acts = 0

GatewayNext ==
    \/ PollDue \/ Retry
    \/ \E i \in DOMAIN probes : ProbeAnswered(i) \/ PollReturns(i) \/ CheckReturns(i)
    \/ \E q \in Request : Call(q)
    \/ \E i \in DOMAIN calls : GuardRejects(i) \/ CallReturns(i)
    \/ \E i \in DOMAIN calls, minted \in MintedId, body \in Body \cup {Nothing} :
        Handled(i, minted, body)
    \/ \E state \in {"up", "down"} : BackendTurns(state)
    \/ \E state \in {"open", "expired", "denied", "faulty", "offline"} : FrontTurns(state)
    \/ \E s \in Subject : SignInChanges(s)

GatewaySpec == GatewayInit /\ [][GatewayNext]_gatewayVars

-----------------------------------------------------------------------------
User == Subject \cup MintedId
PublicProblem == [code: Text, message: Text, recovery: Text,
                  details: BoundedSeq({"good"}, DetailLimit), generic: BOOLEAN]

\* The state stays in its types; no answer carries an unbounded text.
GatewayTypeOK ==
    /\ gate.state \in GateState /\ gate.due \in BOOLEAN /\ gate.number \in 0 .. MaxProbes
    /\ \A i \in DOMAIN probes :
        /\ probes[i].kind \in {"check", "poll"} /\ probes[i].active \in BOOLEAN
        /\ probes[i].saw \in GateState \cup {Nothing}
    /\ jar \in User \cup {Nothing}
    /\ seen # Nothing => seen.user \in User
    /\ shown # Nothing => shown.error \in PublicProblem /\ shown.error.message # "long"
    /\ loggedOut \in BOOLEAN

\* While the page is held back, recovery is under way and never doubled: the
\* timer runs or one poll that counts is on its way, and never both; once the
\* backend is up, neither.
RecoveryIsSingle ==
    LET polls == {i \in DOMAIN probes : probes[i].kind = "poll" /\ probes[i].active}
    IN Cardinality(polls) + (IF gate.due THEN 1 ELSE 0) = IF gate.state = "up" THEN 0 ELSE 1

\* Whoever the gateway vouches for is who the handlers see, the very first
\* request and the one after a change of sign-in included, whatever cookie a
\* late answer has put back.
HandlersSeeTheAsserted ==
    seen # Nothing /\ seen.asserted # Nothing => seen.user = seen.asserted

\* The two hops agree: what the page is given of a structured failure is what
\* the relay made of it, so a form can mark the fields it names.
ProblemSurvives ==
    shown # Nothing /\ shown.from # Nothing => shown.error = PublicError(shown.from)

\* The conjunction the runs check.
GatewayIsTrue == RecoveryIsSingle /\ HandlersSeeTheAsserted /\ ProblemSurvives

=============================================================================
