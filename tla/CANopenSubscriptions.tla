------------------------ MODULE CANopenSubscriptions ------------------------
(***************************************************************************)
(* The verbs subscribe and unsubscribe of the root API: subunsub() applies *)
(* each pattern of the query to the sensors of all the slaves of all the   *)
(* masters, in one handler on the API thread, while clients disconnect.    *)
(* The other verbs of the root API that keep no state (ping, info, status) *)
(* wait for the same thread.                                               *)
(***************************************************************************)
EXTENDS Naturals, Sequences, FiniteSets

CONSTANTS
  Sensors,     \* the sensors
  HasEvent,    \* those that have an event (that can be read)
  Clients,     \* the client sessions
  Requests,    \* the requests clients may send
  Queries,     \* the queries of these requests, see QueryType
  Nobody,      \* the request of an API thread that handles none
  MaxIdx       \* bound on nidx, a size_t: from there on it is not counted

\* An item of the query: a regular expression and the sensors whose uid it
\* matches, nothing (no parameter, or the JSON null), or something else (not a
\* string, or not a regular expression).
ItemType == [kind : {"pattern", "null", "bad"}, matches : SUBSET Sensors]

\* A query: without parameter or with a single value, items has one item; with an
\* array, items is the array.  "other" stands for ping, info and status, "invalid"
\* for a parameter that is not JSON.
QueryType == [verb : {"subscribe", "unsubscribe", "other", "invalid"},
              client : Clients, items : Seq(ItemType)]

ASSUME HasEventAssumption == HasEvent \subseteq Sensors
ASSUME QueriesAssumption == Queries \subseteq QueryType /\ Queries # {}
ASSUME NobodyAssumption == Nobody \notin Requests
ASSUME MaxIdxAssumption ==
  MaxIdx \in Nat /\ \A q \in Queries : Len(q.items) < MaxIdx

VARIABLES
  eventActive, \* m_event_active of each sensor
  listeners,   \* the sessions subscribed to the event of each sensor
  api,         \* the API thread: where it is and what it handles
  phase,       \* of each request: "new", "open" or "gone"
  replies,     \* how many answers each request got
  answer,      \* the status of the answer of each request
  query,       \* history: the query of each request
  accepted,    \* history: the sensors whose event took the client of a request
               \* (or lost it, for unsubscribe)
  refused      \* history: the requests the framework refused something

frame == <<phase, query>>
vars == <<eventActive, listeners, api, phase, replies, answer, query, accepted,
          refused>>

NoQuery == CHOOSE q \in Queries : TRUE
Null == [kind |-> "null", matches |-> {}]

\* nidx counts the items from 1, todo holds the sensors foreach is still to visit
\* for the item, nrc and rc tell whether the item, and any item, failed.
ApiType == [pc : {"idle", "dispatch", "item", "visit", "event", "reply", "return"},
            req : Requests \cup {Nobody}, nidx : 1..MaxIdx, todo : SUBSET Sensors,
            sensor : Sensors \cup {Nobody}, nrc : BOOLEAN, rc : BOOLEAN]
ApiIdle == [pc |-> "idle", req |-> Nobody, nidx |-> 1, todo |-> {},
            sensor |-> Nobody, nrc |-> FALSE, rc |-> FALSE]

TypeOK ==
  /\ eventActive \in [Sensors -> BOOLEAN]
  /\ listeners \in [Sensors -> SUBSET Clients]
  /\ api \in ApiType
  /\ phase \in [Requests -> {"new", "open", "gone"}]
  /\ replies \in [Requests -> Nat]
  /\ answer \in [Requests -> {"none", "ok", "error"}]
  /\ query \in [Requests -> Queries]
  /\ accepted \in [Requests -> SUBSET Sensors]
  /\ refused \subseteq Requests

Init ==
  /\ eventActive = [s \in Sensors |-> FALSE]
  /\ listeners = [s \in Sensors |-> {}]
  /\ api = ApiIdle
  /\ phase = [r \in Requests |-> "new"]
  /\ replies = [r \in Requests |-> 0]
  /\ answer = [r \in Requests |-> "none"]
  /\ query = [r \in Requests |-> NoQuery]
  /\ accepted = [r \in Requests |-> {}]
  /\ refused = {}

-----------------------------------------------------------------------------
Reply(r, status) ==
  /\ replies' = [replies EXCEPT ![r] = @ + 1]
  /\ answer' = [answer EXCEPT ![r] = status]

Current == query[api.req]
At(verb) == Current.verb = verb

Accept(r, q) ==
  /\ api.pc = "idle" /\ phase[r] = "new"
  /\ phase' = [phase EXCEPT ![r] = "open"]
  /\ query' = [query EXCEPT ![r] = q]
  /\ api' = [ApiIdle EXCEPT !.pc = "dispatch", !.req = r]
  /\ UNCHANGED <<eventActive, listeners, replies, answer, accepted, refused>>

\* ping, info and status answer at once; so does subunsub without JSON.
Immediate ==
  /\ api.pc = "dispatch"
  /\ \/ /\ At("other")
        /\ Reply(api.req, "ok")
     \/ /\ At("other") \/ At("invalid")
        /\ Reply(api.req, "error")
  /\ api' = [api EXCEPT !.pc = "return"]
  /\ UNCHANGED <<eventActive, listeners, accepted, refused, frame>>

Begin ==
  /\ api.pc = "dispatch"
  /\ At("subscribe") \/ At("unsubscribe")
  /\ api' = [api EXCEPT !.pc = "item"]
  /\ UNCHANGED <<eventActive, listeners, replies, answer, accepted, refused, frame>>

\* The item of index nidx: past the end of the array there is none.
Item == IF api.nidx <= Len(Current.items) THEN Current.items[api.nidx] ELSE Null

\* The first item being nothing stands for the pattern that matches everything.
Matched(item, nidx) ==
  IF item.kind = "null" /\ nidx = 1 THEN Sensors ELSE item.matches

IsPattern(item, nidx) == item.kind = "pattern" \/ (item.kind = "null" /\ nidx = 1)

\* Mutant: an item found in part of the uid is taken for a match.
StartItemSearches ==
  /\ api.pc = "item"
  /\ api' = [api EXCEPT !.pc = "visit",
                        !.todo = IF IsPattern(Item, api.nidx) THEN Sensors ELSE {},
                        !.nrc = ~IsPattern(Item, api.nidx)]
  /\ UNCHANGED <<eventActive, listeners, replies, answer, accepted, refused, frame>>

\* Mutant: an item that is no pattern ends the handler, without an answer.
StartItemReturns ==
  /\ api.pc = "item"
  /\ api' = IF IsPattern(Item, api.nidx)
            THEN [api EXCEPT !.pc = "visit", !.todo = Matched(Item, api.nidx)]
            ELSE [api EXCEPT !.pc = "return"]
  /\ UNCHANGED <<eventActive, listeners, replies, answer, accepted, refused, frame>>

StartItem ==
  /\ api.pc = "item"
  /\ api' = [api EXCEPT !.pc = "visit",
                        !.todo = IF IsPattern(Item, api.nidx)
                                 THEN Matched(Item, api.nidx) ELSE {},
                        !.nrc = ~IsPattern(Item, api.nidx)]
  /\ UNCHANGED <<eventActive, listeners, replies, answer, accepted, refused, frame>>

\* foreach comes to a sensor that matches (the order of the uids does not matter
\* here).  A sensor without event is left alone, with success; otherwise subscribe
\* first sets m_event_active.
Visit(s) ==
  /\ api.pc = "visit" /\ s \in api.todo
  /\ api' = [api EXCEPT !.todo = @ \ {s}, !.sensor = s,
                        !.pc = IF s \in HasEvent THEN "event" ELSE "visit"]
  /\ eventActive' = [eventActive EXCEPT
                       ![s] = @ \/ (s \in HasEvent /\ At("subscribe"))]
  /\ UNCHANGED <<listeners, replies, answer, accepted, refused, frame>>

\* afb_req_subscribe and afb_req_unsubscribe, that may refuse.
Event ==
  /\ api.pc = "event"
  /\ LET s == api.sensor
         c == Current.client
         after == IF At("subscribe") THEN listeners[s] \cup {c}
                                     ELSE listeners[s] \ {c}
     IN
     \/ /\ listeners' = [listeners EXCEPT ![s] = after]
        /\ accepted' = [accepted EXCEPT ![api.req] = @ \cup {s}]
        /\ api' = [api EXCEPT !.pc = "visit"]
        /\ UNCHANGED refused
     \/ /\ At("subscribe") \/ c \notin listeners[s]
        /\ refused' = refused \cup {api.req}
        /\ api' = [api EXCEPT !.pc = "visit", !.nrc = TRUE]
        /\ UNCHANGED <<listeners, accepted>>
  /\ UNCHANGED <<eventActive, replies, answer, frame>>

\* Mutant: the status of the last item is that of the request.
EndItemLast ==
  /\ api.pc = "visit" /\ api.todo = {}
  /\ api' = IF api.nidx = Len(Current.items)
            THEN [api EXCEPT !.pc = "reply", !.rc = api.nrc]
            ELSE [api EXCEPT !.pc = "item", !.rc = api.nrc,
                             !.nidx = IF @ < MaxIdx THEN @ + 1 ELSE MaxIdx]
  /\ UNCHANGED <<eventActive, listeners, replies, answer, accepted, refused, frame>>

\* Mutant: nidx is incremented before it is compared.
EndItemEarly ==
  /\ api.pc = "visit" /\ api.todo = {}
  /\ api' = IF api.nidx + 1 = Len(Current.items)
            THEN [api EXCEPT !.pc = "reply", !.rc = @ \/ api.nrc]
            ELSE [api EXCEPT !.pc = "item", !.rc = @ \/ api.nrc, !.nidx = @ + 1]
  /\ UNCHANGED <<eventActive, listeners, replies, answer, accepted, refused, frame>>

\* The next item, until nidx is the count of items.  The count of an empty array
\* is 0: nidx, that starts from 1, would have to wrap.
EndItem ==
  /\ api.pc = "visit" /\ api.todo = {}
  /\ api' = IF api.nidx = Len(Current.items)
            THEN [api EXCEPT !.pc = "reply", !.rc = @ \/ api.nrc]
            ELSE [api EXCEPT !.pc = "item", !.rc = @ \/ api.nrc,
                             !.nidx = IF @ < MaxIdx THEN @ + 1 ELSE MaxIdx]
  /\ UNCHANGED <<eventActive, listeners, replies, answer, accepted, refused, frame>>

End ==
  /\ api.pc = "reply"
  /\ Reply(api.req, IF api.rc THEN "error" ELSE "ok")
  /\ api' = [api EXCEPT !.pc = "return"]
  /\ UNCHANGED <<eventActive, listeners, accepted, refused, frame>>

Return ==
  /\ api.pc = "return"
  /\ phase' = [phase EXCEPT ![api.req] = "gone"]
  /\ api' = ApiIdle
  /\ UNCHANGED <<eventActive, listeners, replies, answer, query, accepted, refused>>

ApiStep ==
  \/ Immediate \/ Begin \/ StartItem \/ Event \/ EndItem \/ End \/ Return
  \/ \E s \in Sensors : Visit(s)

\* The framework forgets a session that ends.
Disconnect(c) ==
  /\ listeners' = [s \in Sensors |-> listeners[s] \ {c}]
  /\ UNCHANGED <<eventActive, api, replies, answer, accepted, refused, frame>>

Next ==
  \/ \E r \in Requests, q \in Queries : Accept(r, q)
  \/ ApiStep
  \/ \E c \in Clients : Disconnect(c)

\* The API thread runs.
Fairness == WF_vars(ApiStep)

Spec == Init /\ [][Next]_vars
FairSpec == Spec /\ Fairness

-----------------------------------------------------------------------------
(* What holds, for queries that are not empty arrays.                      *)

Patterns(q) == {k \in DOMAIN q.items : IsPattern(q.items[k], k)}
Asked(q) == UNION {Matched(q.items[k], k) : k \in Patterns(q)}

\* The answer is honest: ok if and only if every item is a pattern and the event
\* of every sensor that matches one of them was subscribed to (or unsubscribed
\* from); the failure of an item or of a sensor neither stops the others nor is
\* hidden by them.
AnswerHonest ==
  \A r \in Requests :
    LET q == query[r] IN
    answer[r] # "none" /\ q.verb \in {"subscribe", "unsubscribe"} =>
      /\ answer[r] = "ok" <=> r \notin refused /\ Patterns(q) = DOMAIN q.items
      /\ r \notin refused => accepted[r] = Asked(q) \cap HasEvent

\* A pattern acts on the sensors whose whole uid it matches: an event is active,
\* and has a listener, only if that client asked for it.
OnlyAsked ==
  \A s \in Sensors :
    LET asking == {r \in Requests : /\ phase[r] # "new"
                                    /\ query[r].verb = "subscribe"
                                    /\ s \in Asked(query[r])}
    IN
    /\ listeners[s] \subseteq {query[r].client : r \in asking}
    /\ eventActive[s] => asking # {}

\* The root verbs are a request service: each request gets one answer, whatever
\* the items and the refusals.
Service == INSTANCE RequestService WITH
  accepted <- {r \in Requests : phase[r] # "new"},
  released <- {r \in Requests : phase[r] = "gone"}

ServiceSpec == Service!Spec

-----------------------------------------------------------------------------
(* What the documentation says and does not hold.                          *)

\* "These verbs accept no argument or one JSON argument holding either a single
\* string or an array of strings": whatever the array, the request is answered.
ArrayAnswered ==
  \A r \in Requests : phase[r] = "open" ~> replies[r] = 1
=============================================================================
