-------------------------- MODULE BrowserTelemetry --------------------------
(***************************************************************************)
(* Browser telemetry (packages/otel-web): the provider that loads and      *)
(* starts the SDK (TelemetryProvider, initTelemetry), what the SDK queues  *)
(* and posts (spans in batches, vitals as delta points, errors at once),   *)
(* and the relay under /api/telemetry that checks a post, rebuilds it and  *)
(* forwards it (createTelemetryHandler, guardPayload).                     *)
(*                                                                         *)
(* A span is its attributes and how many events and links it carries.  A   *)
(* value is "plain", "dirty" (a path for a route, a query in a URL, a text *)
(* or an enumeration out of bounds), a "number" or "nested".               *)
(***************************************************************************)
EXTENDS Integers, Sequences, SequencesExt, FiniteSets

CONSTANTS
    SpanShape,          \* the spans the instrumentations end
    Vital,              \* the web vitals and the page load time
    Request,            \* the posts of other clients of the relay
    MaxQueue, MaxBatch, \* maxQueueSize 1000, maxExportBatchSize 100
    MaxPerPage,         \* errors reported per registration; 10
    MaxSpans, MaxPoints, MaxErrors, \* DEFAULT_INGEST_LIMITS: 150, 100, 20
    MaxEvents,          \* MAX_EVENTS_PER_SPAN; 32
    MaxTries,           \* how often the exporter sends a post
    Nothing,
    MaxPosts, MaxActs   \* bounds

BatchFits == MaxBatch <= MaxSpans /\ Cardinality(Vital) <= MaxPoints

VARIABLES
    provider,   \* TelemetryProvider: its effect runs, see Provider
    sdk,        \* the module state of initTelemetry
    posts,      \* the posts on their way
    relay,      \* the environment of the pod, and the collector behind it
    last,       \* the last post the relay handled, and what became of it
    acts

telemetryVars == <<provider, sdk, posts, relay, last, acts>>

Act == acts < MaxActs /\ acts' = acts + 1

-----------------------------------------------------------------------------
(* The ingest guard *)

\* filterAttributes: the allowlist, and the value each key admits.
Admits(a) ==
    /\ a.key # "unlisted" /\ a.value # "nested"
    /\ a.key \in {"http.route", "url.full", "enum"} => a.value # "number"
    /\ a.key = "enum" => a.value = "plain"
\* normalizeRoute, sanitizeUrl, the cut at MAX_ATTRIBUTE_VALUE_CHARS
Cleaned(a) == IF a.value = "dirty" THEN [a EXCEPT !.value = "plain"] ELSE a
Filtered(attrs) ==
    LET kept == SelectSeq(attrs, Admits) IN [i \in DOMAIN kept |-> Cleaned(kept[i])]
Dropped(attrs) == Len(attrs) - Len(Filtered(attrs))

SumOver(f, s) == FoldLeft(LAMBDA n, e : n + f[e], 0, s)
AtMost(s, n) == SubSeq(s, 1, IF Len(s) < n THEN Len(s) ELSE n)

\* rebuildSpan: what is not copied does not exist downstream.
RebuiltSpan(span) ==
    [attrs |-> Filtered(span.attrs),
     events |-> IF span.events < MaxEvents THEN span.events ELSE MaxEvents]

\* buildResource: from the pod's environment alone; the user goes on traces and
\* errors when a salt is there.
Identity(signal) == signal # "metrics"
Resource(signal) == [user |-> Identity(signal) /\ relay.salt, tenant |-> relay.tenant]

\* processTraces: junk entries are passed over, spans past the limit counted.
SpansOf(post) == SelectSeq(post.items, LAMBDA e : e # Nothing)
ProcessedTraces(post) ==
    LET kept == AtMost(SpansOf(post), MaxSpans) IN
    [forwarded |-> [i \in DOMAIN kept |-> RebuiltSpan(kept[i])],
     rejected |-> Len(SpansOf(post)) - Len(kept),
     dropped |-> SumOver([e \in ToSet(kept) |-> Dropped(e.attrs)], kept)]

\* processMetrics: a metric off the list counts as one dropped attribute, its
\* points are not looked at; of the others the points past the limit count.
Known(post) == SelectSeq(SpansOf(post), LAMBDA e : e.name = "known")
PointsOf(post) == FoldLeft(LAMBDA ps, e : ps \o e.points, <<>>, Known(post))
ProcessedMetrics(post) ==
    LET kept == AtMost(PointsOf(post), MaxPoints) IN
    [forwarded |-> [i \in DOMAIN kept |-> [attrs |-> Filtered(kept[i])]],
     rejected |-> Len(PointsOf(post)) - Len(kept),
     dropped |-> Len(SpansOf(post)) - Len(Known(post))
                 + SumOver([e \in ToSet(kept) |-> Dropped(e)], kept)]

\* The errors branch of guardPayload, and emitErrors: a record that is no object
\* is written as an error of nothing.
CountErrors(post) == IF Len(post.items) > MaxErrors THEN Len(post.items) - MaxErrors ELSE 0
ProcessedErrors(post) ==
    LET kept == AtMost(post.items, MaxErrors) IN
    [forwarded |-> [i \in DOMAIN kept |->
                       IF kept[i] = Nothing THEN [attrs |-> <<>>]
                       ELSE [attrs |-> [j \in DOMAIN kept[i].attrs |-> Cleaned(kept[i].attrs[j])]]],
     rejected |-> CountErrors(post), dropped |-> 0]

Processed(post) ==
    CASE post.signal = "traces" -> ProcessedTraces(post)
      [] post.signal = "metrics" -> ProcessedMetrics(post)
      [] OTHER -> ProcessedErrors(post)

-----------------------------------------------------------------------------
(* The relay *)

\* The refusals of POST, then of guardPayload, in their order; 0 lets it through.
Refusal(post) ==
    IF ~relay.enabled \/ ~relay.endpoint THEN 503
    ELSE IF post.origin = "cross" THEN 403      \* isSameOrigin
    ELSE IF ~post.subject THEN 401
    ELSE IF post.size = "over" THEN 413         \* readBounded
    ELSE IF post.signal \notin {"traces", "metrics", "errors"} THEN 404
    ELSE IF post.form = "text" \/ (post.form = "odd" /\ post.signal # "errors") THEN 400
    ELSE 0

\* A stalled collector may have taken the batch when the hop is given up.
Answer(post) ==
    IF Refusal(post) # 0 THEN Refusal(post)
    ELSE IF post.signal # "errors" /\ relay.collector # "up" THEN 502
    ELSE IF Processed(post).rejected = 0 /\ Processed(post).dropped = 0 THEN 204 ELSE 200

Handled(post) ==
    [post |-> post, status |-> Answer(post),
     answer |-> IF Answer(post) = 200 THEN Processed(post).rejected ELSE 0,
     forwarded |-> IF Refusal(post) # 0 \/ (post.signal # "errors" /\ relay.collector = "down")
                   THEN <<>> ELSE Processed(post).forwarded,
     resource |-> Resource(post.signal)]

\* The exporter sends a post again when the status says so (429, 502, 503, 504);
\* an error is posted once.
Retryable(post, status) ==
    post.from = "sdk" /\ post.signal # "errors" /\ status \in {502, 503} /\ post.tries < MaxTries
Handle(i) ==
    LET post == posts[i] IN
    /\ last' = Handled(post)
    /\ posts' = IF Retryable(post, Answer(post)) THEN [posts EXCEPT ![i].tries = @ + 1]
                ELSE RemoveAt(posts, i)
    /\ UNCHANGED <<provider, sdk, relay, acts>>

\* A signed-in client of another build posts to the relay.
OtherPost(post) ==
    /\ Act /\ Len(posts) < MaxPosts
    /\ posts' = Append(posts, post)
    /\ UNCHANGED <<provider, sdk, relay, last>>

CollectorTurns(state) ==
    /\ Act /\ state # relay.collector
    /\ relay' = [relay EXCEPT !.collector = state]
    /\ UNCHANGED <<provider, sdk, posts, last>>

-----------------------------------------------------------------------------
(* The SDK *)

Post(signal, items) ==
    [signal |-> signal, items |-> items, from |-> "sdk", tries |-> 1, origin |-> "same",
     subject |-> TRUE, size |-> "fits", form |-> "json"]

\* The batches a flush sends, at most MaxBatch spans each; forceFlush of the
\* metric reader sends what was recorded since the last collection.
Batches(spans) ==
    [i \in 1..((Len(spans) + MaxBatch - 1) \div MaxBatch) |->
        Post("traces", AtMost(SubSeq(spans, (i - 1) * MaxBatch + 1, Len(spans)), MaxBatch))]
Points(recorded) ==
    IF recorded = <<>> THEN <<>>
    ELSE <<Post("metrics", [i \in DOMAIN recorded |->
               [name |-> "known", points |-> <<<<[key |-> "http.route", value |-> "plain"]>>>>]])>>

Room(n) == Len(posts) + n <= MaxPosts

Idle == [on |-> FALSE, spans |-> <<>>, recorded |-> <<>>, reported |-> 0]
Started == [Idle EXCEPT !.on = TRUE]

\* BatchSpanProcessor: a span past the queue's size is dropped.
SpanEnds(shape) ==
    /\ Act /\ sdk.on
    /\ sdk' = IF Len(sdk.spans) >= MaxQueue THEN sdk ELSE [sdk EXCEPT !.spans = Append(@, shape)]
    /\ UNCHANGED <<provider, posts, relay, last>>

\* scheduledDelayMillis: one batch
SpansDue ==
    /\ sdk.on /\ sdk.spans # <<>> /\ Room(1)
    /\ posts' = Append(posts, Batches(sdk.spans)[1])
    /\ sdk' = [sdk EXCEPT !.spans = SubSeq(@, Len(AtMost(@, MaxBatch)) + 1, Len(@))]
    /\ UNCHANGED <<provider, relay, last, acts>>

\* record of registerWebVitals and registerPageLoadTime
VitalReported(v) ==
    /\ Act /\ sdk.on /\ ~Contains(sdk.recorded, v)
    /\ sdk' = [sdk EXCEPT !.recorded = Append(@, v)]
    /\ UNCHANGED <<provider, posts, relay, last>>

\* exportIntervalMillis, or flushMetrics when the page is hidden
PointsDue ==
    /\ sdk.on /\ sdk.recorded # <<>> /\ Room(1)
    /\ posts' = posts \o Points(sdk.recorded)
    /\ sdk' = [sdk EXCEPT !.recorded = <<>>]
    /\ UNCHANGED <<provider, relay, last, acts>>

\* capture of registerErrorCapture: sent at once, until MaxPerPage
Reports == sdk.reported < MaxPerPage
ErrorThrown ==
    /\ Act /\ sdk.on /\ Reports /\ Room(1)
    /\ sdk' = [sdk EXCEPT !.reported = @ + 1]
    /\ posts' = Append(posts, Post("errors", <<[attrs |-> <<[key |-> "http.route", value |-> "plain"]>>]>>))
    /\ UNCHANGED <<provider, relay, last>>

-----------------------------------------------------------------------------
(* The provider *)

\* The cleanup of an effect run: it is cancelled, and its teardown, if it got
\* one, shuts the SDK down, which sends what is left.
Left == Batches(sdk.spans) \o Points(sdk.recorded)
CleanUp ==
    /\ provider.owner => Room(Len(Left))
    /\ sdk' = IF provider.owner THEN Idle ELSE sdk
    /\ posts' = IF provider.owner THEN posts \o Left ELSE posts

Cancelled == [i \in DOMAIN provider.chunks |-> FALSE]

\* The effect imports the SDK's chunk.
Mount ==
    /\ Act /\ ~provider.mounted
    /\ provider' = [provider EXCEPT !.mounted = TRUE, !.chunks = Append(@, TRUE)]
    /\ UNCHANGED <<sdk, posts, relay, last>>
Unmount ==
    /\ Act /\ provider.mounted /\ CleanUp
    /\ provider' = [mounted |-> FALSE, chunks |-> Cancelled, owner |-> FALSE]
    /\ UNCHANGED <<relay, last>>
\* A second mount of StrictMode, or another configuration.
Rerun ==
    /\ Act /\ provider.mounted /\ CleanUp
    /\ provider' = [mounted |-> TRUE, chunks |-> Append(Cancelled, TRUE), owner |-> FALSE]
    /\ UNCHANGED <<relay, last>>

\* initTelemetry returns no teardown when the SDK is already running.
Starts(live) == live /\ ~sdk.on
ChunkArrives(i) ==
    LET live == provider.chunks[i] IN
    /\ provider' = [provider EXCEPT !.chunks = RemoveAt(@, i),
                                    !.owner = IF live THEN Starts(live) ELSE @]
    /\ sdk' = IF Starts(live) THEN Started ELSE sdk
    /\ UNCHANGED <<posts, relay, last, acts>>
ChunkFails(i) ==
    /\ provider' = [provider EXCEPT !.chunks = RemoveAt(@, i)]
    /\ UNCHANGED <<sdk, posts, relay, last, acts>>

-----------------------------------------------------------------------------
TelemetryInit ==
    /\ provider = [mounted |-> FALSE, chunks |-> <<>>, owner |-> FALSE]
    /\ sdk = Idle /\ posts = <<>> /\ last = Nothing /\ acts = 0
    /\ relay \in [enabled: BOOLEAN, endpoint: BOOLEAN, salt: BOOLEAN, tenant: BOOLEAN,
                  collector: {"up"}]
    /\ relay.enabled \/ (relay.endpoint /\ relay.salt /\ relay.tenant)

TelemetryNext ==
    \/ Mount \/ Unmount \/ Rerun \/ SpansDue \/ PointsDue \/ ErrorThrown
    \/ \E i \in DOMAIN provider.chunks : ChunkArrives(i) \/ ChunkFails(i)
    \/ \E shape \in SpanShape : SpanEnds(shape)
    \/ \E v \in Vital : VitalReported(v)
    \/ \E post \in Request : OtherPost(post)
    \/ \E i \in DOMAIN posts : Handle(i)
    \/ \E state \in {"up", "down", "stalled"} : CollectorTurns(state)

TelemetrySpec == TelemetryInit /\ [][TelemetryNext]_telemetryVars

-----------------------------------------------------------------------------
\* The shape of every variable; at most one of the imports on their way is of a
\* run that still counts.
TelemetryTypeOK ==
    /\ provider \in [mounted: BOOLEAN, owner: BOOLEAN, chunks: BoundedSeq(BOOLEAN, MaxActs)]
    /\ Cardinality({i \in DOMAIN provider.chunks : provider.chunks[i]}) <= 1
    /\ sdk.on \in BOOLEAN /\ sdk.reported \in 0..MaxPerPage
    /\ Len(sdk.spans) <= MaxQueue /\ ToSet(sdk.spans) \subseteq SpanShape
    /\ ToSet(sdk.recorded) \subseteq Vital /\ IsInjective(sdk.recorded)
    /\ Len(posts) <= MaxPosts /\ acts \in 0..MaxActs
    /\ relay.collector \in {"up", "down", "stalled"}

\* One SDK runs in a tab, and the mounted provider holds the teardown that stops
\* it: neither a chunk that arrives after its run was cleaned up nor a second
\* start leaves one behind that nobody stops.
SdkIsOwned == sdk.on = provider.owner /\ (provider.owner => provider.mounted)

\* What a post carries is forwarded or counted in the answer: nothing past a
\* limit vanishes silently.
EverythingIsCounted ==
    last # Nothing /\ last.status \in {200, 204} =>
        Len(last.forwarded) + last.answer =
            CASE last.post.signal = "traces" -> Len(SpansOf(last.post))
              [] last.post.signal = "metrics" -> Len(PointsOf(last.post))
              [] OTHER -> Len(last.post.items)

\* No metric names its user, and nothing does without a salt.
MetricsNameNobody ==
    last # Nothing /\ last.resource.user => last.post.signal # "metrics" /\ relay.salt

\* Whoever sent it, what goes on carries listed keys with bounded values.
LabelsAreBounded ==
    last # Nothing =>
        \A record \in ToSet(last.forwarded) : \A a \in ToSet(record.attrs) :
            a.key # "unlisted" /\ a.value \in {"plain", "number"}

\* The SDK's own posts are within the relay's limits, however a flush cuts them.
OwnPostsFit == last # Nothing /\ last.post.from = "sdk" => last.answer = 0

TelemetryIsTrue ==
    /\ SdkIsOwned
    /\ EverythingIsCounted
    /\ MetricsNameNobody
    /\ LabelsAreBounded
    /\ OwnPostsFit

=============================================================================
