------------------------ MODULE RequestChannelProofs ------------------------
(***************************************************************************)
(* Proofs about RequestChannel, for every set of ids and every number of   *)
(* generations.  They follow a request from the webview to its handler: a  *)
(* request under way has an id that no handler and no other request has    *)
(* (RequestsAreNew), so that its handler is the one that the registry      *)
(* tracks until it leaves (Tracks).                                        *)
(***************************************************************************)
EXTENDS RequestChannel, FiniteSetTheorems, SequenceTheorems, TLAPS

\* The registry r registers what the handlers h have to do.
Tracks(r, h) ==
    /\ \A id \in Ids :
         id \in r.live <=> h[id].kind \in Channels /\ id \notin r.aborted
    /\ \A id \in r.aborted : h[id] # NoHandler
    /\ \A c \in Channels, id \in Ids :
         r.owner[c] = id <=> id \in r.live /\ h[id].kind = c

\* A request under way has an id of its own.
IsRequest(m) == m.type # "CANCEL"
RequestsAreNew ==
    /\ \A i \in DOMAIN toHost :
         IsRequest(toHost[i]) => handler[toHost[i].id] = NoHandler
    /\ \A i, j \in DOMAIN toHost :
         IsRequest(toHost[i]) /\ IsRequest(toHost[j])
             /\ toHost[i].id = toHost[j].id
           => i = j

\* A message of the controller is labelled with the generation it was read
\* from, and an invalidation gives its reason.
IsTrue(m) ==
    /\ m.from = "controller" => m.of = m.label
    /\ m.type = "SOURCE_INVALIDATED" => m.kind \in Reasons
MessagesAreTrue == \A i \in DOMAIN toPanel : IsTrue(toPanel[i])

\* The rebuild is one of its stages.
Rebuilds == [at: Stages, document: BOOLEAN]

IInv ==
    /\ TypeOK
    /\ RequestsAreNew
    /\ Tracks(registry, handler)
    /\ MessagesAreTrue
    /\ PendingIsForTheView
-----------------------------------------------------------------------------
(* The registry *)

LEMMA NoneIsNoId == None \notin Ids
  BY IdsAssumption DEF None

LEMMA NoHandlerHasNoChannel == NoHandler.kind \notin Channels
  BY DEF NoHandler, Channels, ReadKinds

LEMMA TracksIsRegistry ==
    ASSUME registry \in Registries, handler \in Handlers,
           Tracks(registry, handler)
    PROVE  RegistryTracksWork
<1>1. registry.live = {id \in Ids : /\ handler[id].kind \in Channels
                                    /\ id \notin registry.aborted}
  BY DEF Tracks, Registries
<1>2. registry.aborted \subseteq {id \in Ids : handler[id] # NoHandler}
  BY DEF Tracks, Registries
<1>3. ASSUME NEW c \in Channels
      PROVE  {id \in registry.live : handler[id].kind = c}
               = {registry.owner[c]} \ {None}
  <2>1. registry.owner[c] \in Ids \cup {None}
    BY DEF Registries
  <2>2. \A id \in Ids :
          registry.owner[c] = id <=> id \in registry.live /\ handler[id].kind = c
    BY DEF Tracks
  <2>3. registry.live \subseteq Ids
    BY DEF Registries
  <2> QED
    BY <2>1, <2>2, <2>3, NoneIsNoId
<1> QED
  BY <1>1, <1>2, <1>3 DEF RegistryTracksWork

LEMMA FinishFields ==
    ASSUME NEW r \in Registries, NEW id \in Ids
    PROVE  /\ Finish(r, id) \in Registries
           /\ Finish(r, id).live = r.live \ {id}
           /\ Finish(r, id).aborted = r.aborted
           /\ \A c \in Channels :
                Finish(r, id).owner[c] = IF r.owner[c] = id THEN None ELSE r.owner[c]
  BY DEF Finish, Registries

LEMMA CancelFields ==
    ASSUME NEW r \in Registries, NEW id \in Ids, id \in r.live
    PROVE  /\ Cancel(r, id) \in Registries
           /\ Cancel(r, id).live = r.live \ {id}
           /\ Cancel(r, id).aborted = r.aborted \cup {id}
           /\ \A c \in Channels :
                Cancel(r, id).owner[c] = IF r.owner[c] = id THEN None ELSE r.owner[c]
<1> DEFINE f == Finish(r, id)
<1>1. /\ f \in Registries
      /\ f.live = r.live \ {id}
      /\ f.aborted = r.aborted
      /\ \A c \in Channels :
           f.owner[c] = IF r.owner[c] = id THEN None ELSE r.owner[c]
  BY FinishFields
<1>2. Cancel(r, id) = [f EXCEPT !.aborted = @ \cup {id}]
  BY DEF Cancel
<1> HIDE DEF f
<1> QED
  BY <1>1, <1>2 DEF Registries

LEMMA CancelTracks ==
    ASSUME NEW r \in Registries, NEW h \in Handlers, Tracks(r, h),
           NEW id \in Ids
    PROVE  Cancel(r, id) \in Registries /\ Tracks(Cancel(r, id), h)
<1>1. CASE id \notin r.live
  BY <1>1 DEF Cancel
<1>2. CASE id \in r.live
  <2>1. h[id] # NoHandler
    BY <1>2, NoHandlerHasNoChannel DEF Tracks
  <2> QED
    BY <1>2, <2>1, CancelFields, NoneIsNoId DEF Tracks
<1> QED
  BY <1>1, <1>2

LEMMA CancelAllTracks ==
    ASSUME NEW r \in Registries, NEW h \in Handlers, Tracks(r, h)
    PROVE  CancelAll(r) \in Registries /\ Tracks(CancelAll(r), h)
<1>1. /\ CancelAll(r) \in Registries
      /\ CancelAll(r).live = {}
      /\ CancelAll(r).aborted = r.aborted \cup r.live
      /\ \A c \in Channels : CancelAll(r).owner[c] = None
  BY DEF CancelAll, Registries
<1>2. \A id \in r.live : h[id] # NoHandler
  BY NoHandlerHasNoChannel DEF Tracks, Registries
<1> QED
  BY <1>1, <1>2, NoneIsNoId DEF Tracks, Registries

\* A request that starts in a channel takes the place of its owner, which is
\* cancelled.
LEMMA StartTracks ==
    ASSUME NEW r \in Registries, NEW h \in Handlers, Tracks(r, h),
           NEW id \in Ids, h[id] = NoHandler,
           NEW channel \in Channels,
           NEW k \in Handlers, k[id].kind = channel,
           \A other \in Ids : other # id => k[other] = h[other]
    PROVE  /\ StartLatest(r, channel, id) \in Registries
           /\ Tracks(StartLatest(r, channel, id), k)
<1> DEFINE e == [r EXCEPT !.live = @ \cup {id}, !.owner[channel] = id]
           old == r.owner[channel]
<1>1. /\ e \in Registries
      /\ e.live = r.live \cup {id}
      /\ e.aborted = r.aborted
      /\ \A c \in Channels : e.owner[c] = IF c = channel THEN id ELSE r.owner[c]
  BY DEF Registries
<1>2. StartLatest(r, channel, id) = Cancel(e, old)
  BY DEF StartLatest
<1>3. id \notin r.live /\ id \notin r.aborted /\ old # id
  BY NoHandlerHasNoChannel DEF Tracks
<1>4. old \in Ids \cup {None}
  BY DEF Registries
<1>5. r.live \subseteq Ids /\ r.aborted \subseteq Ids
  BY DEF Registries
<1>6. k[id] # NoHandler
  BY NoHandlerHasNoChannel
<1> HIDE DEF e
<1>7. CASE old = None
  <2>1. Cancel(e, old) = e
    BY <1>1, <1>5, <1>7, NoneIsNoId DEF Cancel
  <2>2. \A other \in Ids : ~(other \in r.live /\ h[other].kind = channel)
    BY <1>7, NoneIsNoId DEF Tracks
  <2> QED
    BY <1>1, <1>2, <1>3, <1>6, <2>1, <2>2 DEF Tracks, Registries
<1>8. CASE old \in Ids
  <2>1. old \in r.live /\ h[old].kind = channel
    BY <1>8 DEF Tracks
  <2>2. /\ Cancel(e, old) \in Registries
        /\ Cancel(e, old).live = (r.live \cup {id}) \ {old}
        /\ Cancel(e, old).aborted = r.aborted \cup {old}
        /\ \A c \in Channels :
             Cancel(e, old).owner[c] =
               IF e.owner[c] = old THEN None ELSE e.owner[c]
    BY <1>1, <1>8, <2>1, CancelFields
  <2>3. \A c \in Channels : c # channel => r.owner[c] # old
    BY <1>8, <2>1 DEF Tracks
  <2>4. \A c \in Channels :
          Cancel(e, old).owner[c] = IF c = channel THEN id ELSE r.owner[c]
    BY <1>1, <1>3, <2>2, <2>3
  <2>5. \A other \in Ids :
          other \in r.live /\ h[other].kind = channel => other = old
    BY DEF Tracks
  <2>6. k[old] = h[old] /\ h[old] # NoHandler
    BY <1>3, <1>8, <2>1, NoHandlerHasNoChannel
  <2> HIDE DEF old
  <2>7. Tracks(Cancel(e, old), k)
    <3>1. \A other \in Ids :
            other \in Cancel(e, old).live
              <=> k[other].kind \in Channels /\ other \notin Cancel(e, old).aborted
      BY <1>3, <1>8, <2>1, <2>2, <2>6 DEF Tracks
    <3>2. \A other \in Cancel(e, old).aborted : k[other] # NoHandler
      BY <1>3, <1>5, <2>2, <2>6 DEF Tracks
    <3>3. ASSUME NEW c \in Channels, NEW other \in Ids
          PROVE  Cancel(e, old).owner[c] = other
                   <=> other \in Cancel(e, old).live /\ k[other].kind = c
      <4>1. CASE c = channel
        BY <1>3, <2>2, <2>4, <2>5, <4>1
      <4>2. CASE c # channel
        BY <1>3, <2>1, <2>2, <2>4, <2>6, <4>2 DEF Tracks
      <4> QED
        BY <4>1, <4>2
    <3> QED
      BY <3>1, <3>2, <3>3 DEF Tracks
  <2> QED
    BY <1>2, <2>2, <2>7
<1> QED
  BY <1>4, <1>7, <1>8

LEMMA SettleFields ==
    ASSUME NEW r \in Registries, NEW id \in Ids
    PROVE  /\ Settle(r, id) \in Registries
           /\ Settle(r, id).live = r.live \ {id}
           /\ Settle(r, id).aborted = r.aborted \ {id}
           /\ \A c \in Channels :
                Settle(r, id).owner[c] = IF r.owner[c] = id THEN None ELSE r.owner[c]
<1> DEFINE f == Finish(r, id)
<1>1. /\ f \in Registries
      /\ f.live = r.live \ {id}
      /\ f.aborted = r.aborted
      /\ \A c \in Channels :
           f.owner[c] = IF r.owner[c] = id THEN None ELSE r.owner[c]
  BY FinishFields
<1>2. Settle(r, id) = [f EXCEPT !.aborted = @ \ {id}]
  BY DEF Settle
<1> HIDE DEF f
<1> QED
  BY <1>1, <1>2 DEF Registries
-----------------------------------------------------------------------------
(* What the webview posts *)

LEMMA Enumerated ==
    ASSUME NEW S, IsFiniteSet(S)
    PROVE  /\ Cardinality(S) \in Nat
           /\ SetToSeq(S) \in [1..Cardinality(S) -> S]
           /\ IsInjective(SetToSeq(S))
<1>1. Cardinality(S) \in Nat /\ ExistsBijection(1..Cardinality(S), S)
  BY FS_CardinalityType
<1>2. \E f \in [1..Cardinality(S) -> S] : IsInjective(f)
  BY <1>1 DEF ExistsBijection, Bijection, Injection
<1> QED
  BY <1>1, <1>2 DEF SetToSeq

LEMMA FunctionIsSeq ==
    ASSUME NEW S, NEW n \in Nat, NEW f \in [1..n -> S]
    PROVE  f \in Seq(S) /\ Len(f) = n
  BY SeqDef

LEMMA SubsetIsFinite ==
    ASSUME NEW T \in SUBSET Ids
    PROVE  IsFiniteSet(T)
  BY IdsAssumption, FS_Subset

\* What is posted is a number of CANCEL messages, followed by requests of ids
\* that nothing refers to.
Posts(cancels, requests) ==
    /\ toHost' = toHost \o cancels \o requests
    /\ \A k \in DOMAIN cancels : ~IsRequest(cancels[k])
    /\ \A k \in DOMAIN requests : requests[k].id \in Fresh
    /\ \A k, l \in DOMAIN requests : requests[k].id = requests[l].id => k = l

LEMMA TransmitFields ==
    ASSUME NEW p \in Panels, NEW cancelled,
           NEW sent \in Seq(Kinds \cup {"ready"}),
           Transmit(p, cancelled, sent)
    PROVE  /\ panel' \in Panels
           /\ panel'.view = p.view
           /\ panel'.live <=> p.live
           /\ panel'.retired = p.retired
           /\ \A id \in Ids :
                \/ panel'.pending[id] \in {NoRequest, p.pending[id]}
                \/ panel'.pending[id].gen = p.view
           /\ \E cancels, requests \in Seq(HostMessages) : Posts(cancels, requests)
<1> DEFINE ids == SetToSeq(Fresh)
           count == IF Len(sent) < Len(ids) THEN Len(sent) ELSE Len(ids)
           kindOf(id) == sent[CHOOSE k \in 1..count : ids[k] = id]
           gone == {id \in Ids : p.pending[id].kind \in cancelled}
           withdrawn == SetToSeq(gone)
           new == {ids[k] : k \in 1..count}
           q == [id \in Ids |->
                   IF id \in new THEN [kind |-> kindOf(id), gen |-> p.view]
                   ELSE IF id \in gone THEN NoRequest ELSE p.pending[id]]
           cancels == [k \in 1..Cardinality(gone) |->
                         [type |-> "CANCEL", id |-> withdrawn[k], gen |-> p.view]]
           requests == [k \in 1..count |->
                          [type |-> sent[k], id |-> ids[k], gen |-> p.view]]
<1>1. IsFiniteSet(Fresh) /\ IsFiniteSet(gone)
  BY SubsetIsFinite DEF Fresh
<1>2. /\ Cardinality(Fresh) \in Nat
      /\ ids \in [1..Cardinality(Fresh) -> Fresh]
      /\ IsInjective(ids)
  BY <1>1, Enumerated
<1>3. /\ Cardinality(gone) \in Nat
      /\ withdrawn \in [1..Cardinality(gone) -> gone]
  BY <1>1, Enumerated
<1>4. Len(ids) = Cardinality(Fresh)
  BY <1>2, FunctionIsSeq
<1>5. /\ Len(sent) \in Nat
      /\ \A k \in 1..Len(sent) : sent[k] \in Kinds \cup {"ready"}
  BY LenProperties, ElementOfSeq
<1>6. panel' = [p EXCEPT !.pending = q] /\ toHost' = toHost \o cancels \o requests
  BY DEF Transmit
<1> HIDE DEF ids, withdrawn
<1>7. /\ count \in Nat
      /\ \A k \in 1..count : ids[k] \in Fresh /\ sent[k] \in Kinds \cup {"ready"}
      /\ \A k, l \in 1..count : ids[k] = ids[l] => k = l
  BY <1>2, <1>4, <1>5 DEF IsInjective
<1>8. p.view \in Generations /\ p.pending \in [Ids -> {NoRequest} \cup Requests]
  BY DEF Panels
<1> HIDE DEF count
<1>9. \A id \in new : kindOf(id) \in Kinds \cup {"ready"}
  BY <1>7
<1> HIDE DEF kindOf
<1>10. q \in [Ids -> {NoRequest} \cup Requests]
  BY <1>8, <1>9 DEF Requests
<1>11. \A id \in Ids :
         \/ q[id] \in {NoRequest, p.pending[id]}
         \/ q[id].gen = p.view
  OBVIOUS
<1>12. cancels \in Seq(HostMessages)
  <2>1. cancels \in [1..Cardinality(gone) -> HostMessages]
    BY <1>3, <1>8 DEF HostMessages
  <2> HIDE DEF cancels
  <2> QED
    BY <1>3, <2>1, FunctionIsSeq
<1>13. requests \in Seq(HostMessages)
  <2>1. requests \in [1..count -> HostMessages]
    BY <1>7, <1>8 DEF HostMessages, Fresh
  <2> HIDE DEF requests
  <2> QED
    BY <1>7, <2>1, FunctionIsSeq
<1>14. Posts(cancels, requests)
  <2>1. \A k \in DOMAIN cancels : ~IsRequest(cancels[k])
    BY DEF IsRequest
  <2>2. \A k \in DOMAIN requests : requests[k].id \in Fresh
    BY <1>7
  <2>3. \A k, l \in DOMAIN requests : requests[k].id = requests[l].id => k = l
    BY <1>7
  <2> HIDE DEF cancels, requests
  <2> QED
    BY <1>6, <2>1, <2>2, <2>3 DEF Posts
<1> HIDE DEF q, cancels, requests
<1>15. /\ panel' \in Panels
       /\ panel'.view = p.view
       /\ panel'.live <=> p.live
       /\ panel'.retired = p.retired
       /\ panel'.pending = q
  BY <1>6, <1>10 DEF Panels
<1> QED
  BY <1>11, <1>12, <1>13, <1>14, <1>15

LEMMA PostedAreNew ==
    ASSUME TypeOK, RequestsAreNew, UNCHANGED handler,
           NEW cancels \in Seq(HostMessages), NEW requests \in Seq(HostMessages),
           Posts(cancels, requests)
    PROVE  toHost' \in Seq(HostMessages) /\ RequestsAreNew'
<1> DEFINE t == toHost \o cancels
<1>1. toHost \in Seq(HostMessages)
  BY DEF TypeOK
<1>2. /\ t \in Seq(HostMessages)
      /\ Len(t) = Len(toHost) + Len(cancels)
      /\ \A i \in 1..Len(toHost) + Len(cancels) :
           t[i] = IF i <= Len(toHost) THEN toHost[i] ELSE cancels[i - Len(toHost)]
  BY <1>1, ConcatProperties
<1> HIDE DEF t
<1>3. /\ toHost' \in Seq(HostMessages)
      /\ Len(toHost') = Len(t) + Len(requests)
      /\ \A i \in 1..Len(t) + Len(requests) :
           toHost'[i] = IF i <= Len(t) THEN t[i] ELSE requests[i - Len(t)]
  BY <1>2, ConcatProperties DEF Posts, t
<1>4. /\ Len(toHost) \in Nat /\ DOMAIN toHost = 1..Len(toHost)
      /\ Len(cancels) \in Nat /\ DOMAIN cancels = 1..Len(cancels)
      /\ Len(requests) \in Nat /\ DOMAIN requests = 1..Len(requests)
      /\ DOMAIN toHost' = 1..Len(toHost')
  BY <1>1, <1>3, LenProperties
<1>5. ASSUME NEW i \in DOMAIN toHost', IsRequest(toHost'[i])
      PROVE  \/ i \in DOMAIN toHost /\ toHost'[i] = toHost[i]
             \/ /\ i - Len(t) \in DOMAIN requests
                /\ toHost'[i] = requests[i - Len(t)]
  <2>1. CASE i <= Len(toHost)
    BY <1>2, <1>3, <1>4, <2>1
  <2>2. CASE i > Len(toHost) /\ i <= Len(t)
    <3>1. i - Len(toHost) \in DOMAIN cancels /\ toHost'[i] = cancels[i - Len(toHost)]
      BY <1>2, <1>3, <1>4, <2>2
    <3> QED
      BY <1>5, <3>1 DEF Posts
  <2>3. CASE i > Len(t)
    <3>1. Len(t) \in Nat /\ i \in 1..Len(t) + Len(requests)
      BY <1>2, <1>3, <1>4
    <3>2. i - Len(t) \in 1..Len(requests)
      BY <1>4, <2>3, <3>1
    <3>3. toHost'[i] = requests[i - Len(t)]
      BY <1>3, <2>3, <3>1
    <3> QED
      BY <1>4, <3>2, <3>3
  <2> QED
    BY <1>2, <1>3, <1>4, <2>1, <2>2, <2>3
<1>6. ASSUME NEW k \in DOMAIN requests
      PROVE  /\ handler[requests[k].id] = NoHandler
             /\ \A j \in DOMAIN toHost : toHost[j].id # requests[k].id
  BY DEF Posts, Fresh
<1>7. \A i \in DOMAIN toHost' :
        IsRequest(toHost'[i]) => handler'[toHost'[i].id] = NoHandler
  BY <1>5, <1>6 DEF RequestsAreNew
<1>8. ASSUME NEW i \in DOMAIN toHost', NEW j \in DOMAIN toHost',
             IsRequest(toHost'[i]), IsRequest(toHost'[j]),
             toHost'[i].id = toHost'[j].id
      PROVE  i = j
  <2>1. CASE /\ i \in DOMAIN toHost /\ toHost'[i] = toHost[i]
             /\ j \in DOMAIN toHost /\ toHost'[j] = toHost[j]
    BY <1>8, <2>1 DEF RequestsAreNew
  <2>2. CASE /\ i - Len(t) \in DOMAIN requests
             /\ toHost'[i] = requests[i - Len(t)]
             /\ j - Len(t) \in DOMAIN requests
             /\ toHost'[j] = requests[j - Len(t)]
    <3>1. i - Len(t) = j - Len(t)
      BY <1>8, <2>2 DEF Posts
    <3> QED
      BY <1>2, <1>3, <1>4, <3>1
  <2> QED
    BY <1>5, <1>6, <1>8, <2>1, <2>2
<1> QED
  BY <1>3, <1>7, <1>8 DEF RequestsAreNew

\* Receiving the oldest message leaves the other ones as they are.
LEMMA ReceivedAreNew ==
    ASSUME TypeOK, RequestsAreNew, ReceiveNext
    PROVE  /\ toHost' \in Seq(HostMessages)
           /\ Received \in HostMessages
           /\ \A i \in DOMAIN toHost' :
                i + 1 \in DOMAIN toHost /\ toHost'[i] = toHost[i + 1]
           /\ IsRequest(Received) =>
                /\ handler[Received.id] = NoHandler
                /\ \A i \in DOMAIN toHost' :
                     IsRequest(toHost'[i]) => toHost'[i].id # Received.id
<1>1. toHost \in Seq(HostMessages) /\ toHost # <<>> /\ toHost' = Tail(toHost)
  BY DEF TypeOK, ReceiveNext
<1>2. /\ Received \in HostMessages
      /\ toHost' \in Seq(HostMessages)
      /\ Len(toHost') = Len(toHost) - 1
      /\ \A i \in 1..Len(toHost') : toHost'[i] = toHost[i + 1]
  BY <1>1, HeadTailProperties DEF Received
<1>3. /\ Len(toHost) \in Nat \ {0} /\ DOMAIN toHost = 1..Len(toHost)
      /\ DOMAIN toHost' = 1..Len(toHost')
  BY <1>1, <1>2, LenProperties, EmptySeq
<1>4. \A i \in DOMAIN toHost' :
        i + 1 \in DOMAIN toHost /\ i + 1 # 1 /\ toHost'[i] = toHost[i + 1]
  BY <1>2, <1>3
<1>5. Received = toHost[1] /\ 1 \in DOMAIN toHost
  BY <1>1, <1>3 DEF Received
<1> QED
  BY <1>2, <1>4, <1>5 DEF RequestsAreNew

\* The rest of the messages is as new as it was when no handler starts, or
\* when the handler of the message received starts.
LEMMA RestIsNew ==
    ASSUME TypeOK, RequestsAreNew, ReceiveNext,
           \A id \in Ids :
             handler'[id] # handler[id] => IsRequest(Received) /\ id = Received.id
    PROVE  RequestsAreNew'
<1>1. \A i \in DOMAIN toHost' : toHost'[i].id \in Ids
  <2>1. toHost' \in Seq(HostMessages)
    BY ReceivedAreNew
  <2>2. toHost' \in [1..Len(toHost') -> HostMessages]
    BY <2>1, LenProperties
  <2> QED
    BY <2>2 DEF HostMessages
<1> QED
  BY <1>1, ReceivedAreNew DEF RequestsAreNew
-----------------------------------------------------------------------------
(* The webview *)

\* The pending requests of the panel p were made for the generation it shows,
\* which it has not retired.
ForItsView(p) ==
    /\ p \in Panels
    /\ p.view \notin p.retired
    /\ \A id \in Ids :
         p.pending[id] # NoRequest => p.pending[id].gen = p.view

LEMMA PanelIsForItsView == IInv => ForItsView(panel)
  BY DEF IInv, TypeOK, PendingIsForTheView, ForItsView

LEMMA KindSequences ==
    /\ <<>> \in Seq(Kinds \cup {"ready"})
    /\ <<"ready">> \in Seq(Kinds \cup {"ready"})
    /\ \A kind \in Kinds : <<kind>> \in Seq(Kinds \cup {"ready"})
    /\ \A kind, other \in Kinds : <<kind, other>> \in Seq(Kinds \cup {"ready"})
  OBVIOUS

\* What the webview posts for a panel whose requests are for its view.
LEMMA TransmitKeeps ==
    ASSUME TypeOK, RequestsAreNew, UNCHANGED handler,
           NEW p, ForItsView(p), NEW cancelled,
           NEW sent \in Seq(Kinds \cup {"ready"}),
           Transmit(p, cancelled, sent)
    PROVE  /\ ForItsView(panel')
           /\ panel'.view = p.view
           /\ toHost' \in Seq(HostMessages)
           /\ RequestsAreNew'
<1>1. p \in Panels
  BY DEF ForItsView
<1>2. /\ panel' \in Panels
      /\ panel'.view = p.view
      /\ panel'.retired = p.retired
      /\ \A id \in Ids :
           \/ panel'.pending[id] \in {NoRequest, p.pending[id]}
           \/ panel'.pending[id].gen = p.view
      /\ \E cancels, requests \in Seq(HostMessages) : Posts(cancels, requests)
  BY <1>1, TransmitFields
<1>3. toHost' \in Seq(HostMessages) /\ RequestsAreNew'
  BY <1>2, PostedAreNew
<1>4. ForItsView(panel')
  BY <1>2 DEF ForItsView
<1> QED
  BY <1>2, <1>3, <1>4

LEMMA CompletedFields ==
    ASSUME NEW p, ForItsView(p), NEW id
    PROVE  /\ ForItsView(Completed(p, id))
           /\ Completed(p, id).view = p.view
  BY DEF Completed, ForItsView, Panels

LEMMA SetSessionFields ==
    ASSUME NEW p, ForItsView(p), NEW g \in Generations, g \notin p.retired
    PROVE  ForItsView(SetSession(p, g)) /\ SetSession(p, g).view = g
<1>1. CASE g = p.view
  BY <1>1 DEF SetSession
<1>2. CASE g # p.view
  BY <1>2 DEF SetSession, ForItsView, Panels
<1> QED
  BY <1>1, <1>2

LEMMA ReasonFields ==
    ASSUME NEW p, ForItsView(p), NEW reason \in Reasons \cup {"none"},
           NEW accepted \in Generations \cup {None}
    PROVE  /\ ForItsView([p EXCEPT !.accepted = accepted, !.reason = reason])
           /\ [p EXCEPT !.accepted = accepted, !.reason = reason].view = p.view
           /\ ForItsView([p EXCEPT !.reason = reason])
           /\ [p EXCEPT !.reason = reason].view = p.view
  BY DEF ForItsView, Panels

LEMMA PageFields ==
    ASSUME NEW live \in BOOLEAN
    PROVE  ForItsView(Page) /\ ForItsView([Page EXCEPT !.live = live])
<1>1. 1 \in Generations
  BY GenerationsAssumption DEF Generations
<1> QED
  BY <1>1 DEF ForItsView, Page, Panels

\* A message taken by the panel leaves it with requests for its view, and was
\* read from that view if it is the controller's.
LEMMA Delivered ==
    ASSUME IInv, Deliver
    PROVE  /\ ForItsView(panel')
           /\ toHost' \in Seq(HostMessages)
           /\ RequestsAreNew'
           /\ Accepts(Head(toPanel)) => Head(toPanel).label = panel'.view
<1> DEFINE m == Head(toPanel)
<1>1. TypeOK /\ RequestsAreNew /\ ForItsView(panel) /\ UNCHANGED handler
  BY PanelIsForItsView DEF IInv, Deliver, hostVars
<1>2. m \in PanelMessages /\ IsTrue(m)
  <2>1. toPanel \in Seq(PanelMessages) /\ toPanel # <<>>
    BY DEF IInv, TypeOK, Deliver
  <2>2. m \in PanelMessages /\ m = toPanel[1]
    BY <2>1, HeadTailProperties
  <2>3. 1 \in DOMAIN toPanel
    BY <2>1, LenProperties, EmptySeq
  <2> QED
    BY <2>2, <2>3 DEF IInv, MessagesAreTrue
<1>3. /\ panel.reason \in Reasons \cup {"none"}
      /\ panel.accepted \in Generations \cup {None}
  BY DEF IInv, TypeOK, Panels
<1> HIDE DEF m
<1>4. CASE ~Accepts(m)
  <2>1. UNCHANGED <<panel, toHost>>
    BY <1>4 DEF Deliver, m
  <2> QED
    BY <1>1, <1>4, <2>1 DEF TypeOK, RequestsAreNew, m
<1>5. ASSUME NEW p, ForItsView(p), RefreshRows(p)
      PROVE  /\ ForItsView(panel')
             /\ panel'.view = p.view
             /\ toHost' \in Seq(HostMessages)
             /\ RequestsAreNew'
  <2>1. "rows" \in Kinds => <<"rows">> \in Seq(Kinds \cup {"ready"})
    BY KindSequences
  <2> QED
    BY <1>1, <1>5, <2>1, KindSequences, TransmitKeeps DEF RefreshRows
<1>6. CASE Accepts(m) /\ m.type = "OPENED"
  <2> DEFINE p == Completed(SetSession(panel, m.label), m.id)
             changed == panel.accepted # m.label
             next == [p EXCEPT !.accepted = m.label,
                               !.reason = IF changed THEN "none" ELSE @]
  <2>1. m.label \in Generations /\ m.label \notin panel.retired
    BY <1>2, <1>6 DEF Accepts, PanelMessages
  <2>2. ForItsView(p) /\ p.view = m.label
    BY <1>1, <2>1, SetSessionFields, CompletedFields
  <2>3. p.reason \in Reasons \cup {"none"}
    BY <2>2 DEF ForItsView, Panels
  <2>4. ForItsView(next) /\ next.view = m.label
    BY <2>1, <2>2, <2>3, ReasonFields
  <2> HIDE DEF p
  <2>5. \/ Transmit(next, {}, <<>>)
        \/ RefreshRows(next)
        \/ /\ "rows" \in Kinds /\ "follow" \in Kinds
           /\ Transmit(next, {"rows"}, <<"rows", "follow">>)
    BY <1>6 DEF Deliver, TakeOpened, m, p
  <2> HIDE DEF next
  <2> QED
    BY <1>1, <1>5, <2>4, <2>5, KindSequences, TransmitKeeps DEF m
<1>7. CASE Accepts(m) /\ m.type # "OPENED"
  <2> DEFINE p == Completed(panel, m.id)
             next == [p EXCEPT !.reason = NextReason(@, m.kind)]
  <2>1. m.label = panel.view
    BY <1>7 DEF Accepts
  <2>2. ForItsView(p) /\ p.view = m.label
    BY <1>1, <2>1, CompletedFields
  <2>3. p.reason \in Reasons \cup {"none"}
    BY <2>2 DEF ForItsView, Panels
  <2> HIDE DEF p
  <2>4. TakeOther(m)
    BY <1>7 DEF Deliver, m
  <2>5. CASE m.type = "SOURCE_INVALIDATED" /\ m.kind \in Reasons
    <3>1. NextReason(p.reason, m.kind) \in Reasons \cup {"none"}
      BY <2>3, <2>5 DEF NextReason
    <3>2. ForItsView(next) /\ next.view = m.label
      BY <2>2, <3>1, ReasonFields
    <3> HIDE DEF next
    <3>3. \E cancelled : Transmit(next, cancelled, <<>>)
      BY <2>4, <2>5 DEF TakeOther, p, next
    <3> QED
      BY <1>1, <3>2, <3>3, KindSequences, TransmitKeeps DEF m
  <2>6. CASE m.type # "SOURCE_INVALIDATED"
    <3>1. m.type \in {"ERROR", "DATA", "PROFILE_CHANGED", "INDEX_PROGRESS",
                      "ROW_ORDER_CHANGED"}
      BY <1>2, <1>7, <2>6 DEF PanelMessages
    <3>2. Transmit(p, {}, <<>>) \/ RefreshRows(p)
      BY <2>4, <3>1 DEF TakeOther, p
    <3> QED
      BY <1>1, <1>5, <2>2, <3>2, KindSequences, TransmitKeeps DEF m
  <2> QED
    BY <1>2, <2>5, <2>6 DEF IsTrue
<1> QED
  BY <1>4, <1>6, <1>7

LEMMA WebviewKeeps ==
    ASSUME IInv,
           \/ \E kind \in Kinds : SendRequest(kind)
           \/ Deliver \/ Hide \/ Show
    PROVE  IInv'
<1>1. /\ TypeOK /\ RequestsAreNew /\ Tracks(registry, handler)
      /\ MessagesAreTrue /\ ForItsView(panel)
  BY PanelIsForItsView DEF IInv
<1>2. ASSUME UNCHANGED <<hostVars, sessionVars>>,
             ForItsView(panel'), toHost' \in Seq(HostMessages), RequestsAreNew',
             toPanel' \in Seq(PanelMessages), MessagesAreTrue'
      PROVE  IInv'
  BY <1>1, <1>2
     DEF IInv, TypeOK, PendingIsForTheView, ForItsView, hostVars, sessionVars
<1>3. ASSUME NEW kind \in Kinds, SendRequest(kind)
      PROVE  IInv'
  <2>1. \E cancelled, sent : /\ sent \in Seq(Kinds \cup {"ready"})
                            /\ Transmit(panel, cancelled, sent)
    BY <1>3, KindSequences DEF SendRequest
  <2>2. ForItsView(panel') /\ toHost' \in Seq(HostMessages) /\ RequestsAreNew'
    BY <1>1, <1>3, <2>1, TransmitKeeps DEF SendRequest, hostVars
  <2>3. UNCHANGED <<toPanel, hostVars, sessionVars>>
    BY <1>3 DEF SendRequest
  <2> QED
    BY <1>1, <1>2, <2>2, <2>3 DEF TypeOK, MessagesAreTrue
<1>4. CASE Deliver
  <2>1. toPanel \in Seq(PanelMessages) /\ toPanel # <<>> /\ toPanel' = Tail(toPanel)
    BY <1>1, <1>4 DEF TypeOK, Deliver
  <2>2. /\ toPanel' \in Seq(PanelMessages)
        /\ Len(toPanel') = Len(toPanel) - 1
        /\ \A i \in 1..Len(toPanel') : toPanel'[i] = toPanel[i + 1]
    BY <2>1, HeadTailProperties
  <2>3. /\ Len(toPanel) \in Nat \ {0} /\ DOMAIN toPanel = 1..Len(toPanel)
        /\ DOMAIN toPanel' = 1..Len(toPanel')
    BY <2>1, <2>2, LenProperties, EmptySeq
  <2>4. MessagesAreTrue'
    BY <1>1, <2>2, <2>3 DEF MessagesAreTrue
  <2> QED
    BY <1>2, <1>4, <2>2, <2>4, Delivered DEF Deliver
<1>5. CASE Hide
  <2>1. ForItsView(panel')
    BY <1>5, PageFields DEF Hide
  <2>2. Tracks(registry', handler') /\ registry' \in Registries
    BY <1>1, <1>5, CancelAllTracks DEF Hide, TypeOK
  <2>3. toPanel' \in Seq(PanelMessages) /\ MessagesAreTrue'
    BY <1>5, EmptySeq DEF Hide, MessagesAreTrue
  <2>4. UNCHANGED <<toHost, handler, latestRebuild, sessionVars>>
    BY <1>5 DEF Hide
  <2>5. RequestsAreNew'
    BY <1>1, <2>4 DEF RequestsAreNew
  <2>6. TypeOK'
    BY <1>1, <2>1, <2>2, <2>3, <2>4 DEF TypeOK, ForItsView, sessionVars
  <2>7. PendingIsForTheView'
    BY <2>1 DEF PendingIsForTheView, ForItsView
  <2> QED
    BY <2>2, <2>3, <2>5, <2>6, <2>7 DEF IInv
<1>6. CASE Show
  <2>1. ForItsView(Page)
    BY PageFields
  <2>2. ForItsView(panel') /\ toHost' \in Seq(HostMessages) /\ RequestsAreNew'
    BY <1>1, <1>6, <2>1, KindSequences, TransmitKeeps DEF Show, hostVars
  <2> QED
    BY <1>1, <1>2, <1>6, <2>2 DEF Show, TypeOK, MessagesAreTrue
<1> QED
  BY <1>3, <1>4, <1>5, <1>6
-----------------------------------------------------------------------------
(* The controller *)

\* An ordinary rebuild is shared or started, and one that waits moves on.
LEMMA RebuildTypes ==
    ASSUME rebuild \in Rebuilds,
           (\E document \in BOOLEAN : Rebuilding(document)) \/ QueueMovesOn
    PROVE  rebuild' \in Rebuilds
<1>1. CASE \E document \in BOOLEAN : Rebuilding(document)
  BY <1>1 DEF Rebuilding, Rebuilds, Stages
<1>2. CASE QueueMovesOn
  BY <1>2 DEF QueueMovesOn, Rebuilds, Stages, NoRebuild
<1> QED
  BY <1>1, <1>2

LEMMA Posted ==
    ASSUME TypeOK, MessagesAreTrue, UNCHANGED panel,
           NEW messages \in Seq(PanelMessages),
           \A i \in DOMAIN messages : IsTrue(messages[i]),
           Post(messages)
    PROVE  /\ toPanel' \in Seq(PanelMessages)
           /\ MessagesAreTrue'
           /\ Len(toPanel') >= Len(toPanel)
<1>1. toPanel \in Seq(PanelMessages) /\ Len(toPanel) \in Nat
  BY LenProperties DEF TypeOK
<1>2. CASE toPanel' = toPanel
  BY <1>1, <1>2 DEF MessagesAreTrue
<1>3. CASE toPanel' = toPanel \o messages
  <2>1. /\ toPanel' \in Seq(PanelMessages)
        /\ Len(toPanel') = Len(toPanel) + Len(messages)
        /\ \A i \in 1..Len(toPanel) + Len(messages) :
             toPanel'[i] = IF i <= Len(toPanel) THEN toPanel[i]
                           ELSE messages[i - Len(toPanel)]
    BY <1>1, <1>3, ConcatProperties
  <2>2. /\ DOMAIN toPanel = 1..Len(toPanel)
        /\ Len(messages) \in Nat /\ DOMAIN messages = 1..Len(messages)
        /\ DOMAIN toPanel' = 1..Len(toPanel')
    BY <1>1, <2>1, LenProperties
  <2>3. ASSUME NEW i \in DOMAIN toPanel'
        PROVE  IsTrue(toPanel'[i])
    <3>1. CASE i <= Len(toPanel)
      BY <1>1, <2>1, <2>2, <3>1 DEF MessagesAreTrue
    <3>2. CASE i > Len(toPanel)
      <4>1. i - Len(toPanel) \in 1..Len(messages)
        BY <1>1, <2>1, <2>2, <3>2
      <4>2. toPanel'[i] = messages[i - Len(toPanel)]
        BY <1>1, <2>1, <2>2, <3>2
      <4> QED
        BY <2>2, <4>1, <4>2
    <3> QED
      BY <1>1, <2>1, <2>2, <3>1, <3>2
  <2> QED
    BY <1>1, <2>1, <2>2, <2>3 DEF MessagesAreTrue
<1> QED
  BY <1>2, <1>3 DEF Post

LEMMA PostedOne ==
    ASSUME TypeOK, MessagesAreTrue, UNCHANGED panel,
           NEW m \in PanelMessages, IsTrue(m), Post(<<m>>)
    PROVE  /\ toPanel' \in Seq(PanelMessages)
           /\ MessagesAreTrue'
           /\ Len(toPanel') >= Len(toPanel)
<1>1. <<m>> \in Seq(PanelMessages) /\ \A i \in DOMAIN <<m>> : IsTrue(<<m>>[i])
  OBVIOUS
<1> QED
  BY <1>1, Posted

LEMMA PostedSet ==
    ASSUME TypeOK, MessagesAreTrue, UNCHANGED panel,
           NEW messages \in SUBSET PanelMessages, IsFiniteSet(messages),
           \A m \in messages : IsTrue(m),
           NEW posts \in SetToSeqs(messages), Post(posts)
    PROVE  /\ toPanel' \in Seq(PanelMessages)
           /\ MessagesAreTrue'
           /\ Len(toPanel') >= Len(toPanel)
<1>1. Cardinality(messages) \in Nat
  BY FS_CardinalityType
<1>2. posts \in [1..Cardinality(messages) -> messages]
  BY DEF SetToSeqs
<1>3. posts \in [1..Cardinality(messages) -> PanelMessages]
  BY <1>2
<1>4. posts \in Seq(PanelMessages)
  BY <1>1, <1>3, FunctionIsSeq
<1>5. \A i \in DOMAIN posts : IsTrue(posts[i])
  BY <1>2
<1> QED
  BY <1>4, <1>5, Posted

\* Opened and Error are labelled with the generation the session has.
LEMMA AnswerTypes ==
    ASSUME TypeOK, NEW id \in Ids \cup {None},
           NEW from \in {"controller", "document"}
    PROVE  /\ Opened(id, from) \in PanelMessages /\ IsTrue(Opened(id, from))
           /\ Error(id, from) \in PanelMessages /\ IsTrue(Error(id, from))
  BY DEF TypeOK, Opened, Error, Message, PanelMessages, IsTrue

LEMMA MessageTypes ==
    ASSUME NEW id \in Ids \cup {None}, NEW g \in Generations,
           NEW from \in {"controller", "document"},
           NEW kind \in Kinds, kind # "rebuild"
    PROVE  /\ Message(AnswerOf(kind), kind, id, g, g, from) \in PanelMessages
           /\ IsTrue(Message(AnswerOf(kind), kind, id, g, g, from))
           /\ Message("INDEX_PROGRESS", "none", id, g, g, from) \in PanelMessages
           /\ IsTrue(Message("INDEX_PROGRESS", "none", id, g, g, from))
           /\ Message("OPENED", "none", id, g, g, from) \in PanelMessages
           /\ IsTrue(Message("OPENED", "none", id, g, g, from))
<1>1. AnswerOf(kind) \in {"DATA", "PROFILE_CHANGED", "INDEX_PROGRESS",
                          "ROW_ORDER_CHANGED"}
  BY KindsAssumption DEF AnswerOf, ReadKinds
<1> QED
  BY <1>1 DEF Message, PanelMessages, IsTrue

LEMMA ReceivingKeeps ==
    ASSUME IInv, HostReceives
    PROVE  IInv' /\ Len(toPanel') >= Len(toPanel)
<1>1. /\ TypeOK /\ RequestsAreNew /\ Tracks(registry, handler)
      /\ MessagesAreTrue /\ PendingIsForTheView
      /\ registry \in Registries /\ handler \in Handlers
      /\ toPanel \in Seq(PanelMessages)
  BY DEF IInv, TypeOK
<1>2. Len(toPanel) >= Len(toPanel)
  BY <1>1, LenProperties
<1>3. ReceiveNext /\ UNCHANGED <<panel, generation, summaryDue, classifying, unawaited>>
  BY DEF HostReceives, HandleCancel, HandleStale, HandleReady, HandleRequest,
         HandleRebuild, sessionVars
<1>4. Received \in HostMessages /\ toHost' \in Seq(HostMessages)
  BY <1>1, <1>3, ReceivedAreNew
<1>5. Received.id \in Ids /\ Received.type \in Kinds \cup {"ready", "CANCEL"}
  BY <1>4 DEF HostMessages
<1>6. ASSUME toPanel' \in Seq(PanelMessages), MessagesAreTrue',
             latestRebuild' \in Ids \cup {None},
             rebuild' \in Rebuilds,
             handler' \in Handlers, registry' \in Registries,
             Tracks(registry', handler'), RequestsAreNew',
             Len(toPanel') >= Len(toPanel)
      PROVE  IInv' /\ Len(toPanel') >= Len(toPanel)
  BY <1>1, <1>3, <1>4, <1>6 DEF IInv, TypeOK, PendingIsForTheView, Rebuilds
<1>7. UNCHANGED handler => RequestsAreNew'
  BY <1>1, <1>3, RestIsNew
<1>8. CASE HandleCancel
  <2>1. registry' \in Registries /\ Tracks(registry', handler)
    BY <1>1, <1>5, <1>8, CancelTracks DEF HandleCancel
  <2> QED
    BY <1>2, <1>1, <1>6, <1>7, <1>8, <2>1
       DEF HandleCancel, TypeOK, MessagesAreTrue, sessionVars, Rebuilds
<1>9. CASE HandleStale \/ HandleReady
  <2>1. /\ toPanel' \in Seq(PanelMessages) /\ MessagesAreTrue'
        /\ Len(toPanel') >= Len(toPanel)
    BY <1>1, <1>3, <1>5, <1>9, AnswerTypes, PostedOne DEF HandleStale, HandleReady
  <2> QED
    BY <1>1, <1>6, <1>7, <1>9, <2>1
       DEF HandleStale, HandleReady, TypeOK, hostVars, sessionVars, Rebuilds
<1>10. CASE HandleRequest \/ HandleRebuild
  <2> DEFINE id == Received.id
             kind == Received.type
  <2>1. kind \in Kinds /\ Started(id, kind) /\ IsRequest(Received)
    BY <1>5, <1>10 DEF HandleRequest, HandleRebuild, IsRequest
  <2>2. handler[id] = NoHandler
    BY <1>1, <1>3, <2>1, ReceivedAreNew
  <2>3. generation \in Generations
    BY <1>1 DEF TypeOK
  <2>4. handler' = [handler EXCEPT ![id] =
                      [at |-> "work", kind |-> kind, of |-> generation]]
    BY <2>1 DEF Started
  <2>5. /\ handler' \in Handlers
        /\ handler'[id].kind = kind
        /\ \A other \in Ids : other # id => handler'[other] = handler[other]
    BY <1>1, <1>5, <2>1, <2>3, <2>4 DEF Handlers, Awaits
  <2>6. RequestsAreNew'
    BY <1>1, <1>3, <2>1, <2>5, RestIsNew
  <2>7. registry' \in Registries /\ Tracks(registry', handler')
    <3>1. CASE kind \in Channels
      BY <1>1, <1>5, <2>1, <2>2, <2>5, <3>1, StartTracks DEF Started
    <3>2. CASE kind \notin Channels
      <4>1. registry' = registry
        BY <2>1, <3>2 DEF Started
      <4>2. id \notin registry.live /\ id \notin registry.aborted
        BY <1>1, <1>5, <2>2, NoHandlerHasNoChannel DEF Tracks
      <4>3. registry.live \subseteq Ids /\ registry.aborted \subseteq Ids
        BY <1>1 DEF Registries
      <4> QED
        BY <1>1, <2>5, <3>2, <4>1, <4>2, <4>3 DEF Tracks
    <3> QED
      BY <3>1, <3>2
  <2>8. /\ toPanel' = toPanel
        /\ latestRebuild' \in {latestRebuild, id}
        /\ rebuild' = rebuild \/ Rebuilding(FALSE)
    BY <1>10 DEF HandleRequest, HandleRebuild, sessionVars
  <2>9. /\ latestRebuild' \in Ids \cup {None}
        /\ rebuild' \in Rebuilds
        /\ toPanel' \in Seq(PanelMessages)
        /\ MessagesAreTrue'
        /\ Len(toPanel') >= Len(toPanel)
    BY <1>2, <1>1, <1>5, <2>8, RebuildTypes DEF TypeOK, MessagesAreTrue, Rebuilds
  <2> QED
    BY <1>6, <2>5, <2>6, <2>7, <2>9
<1> QED
  BY <1>8, <1>9, <1>10 DEF HostReceives

\* Handlers that stay, or leave with what the registry has of them, are those
\* of no request under way.
LEMMA HandlersRemain ==
    ASSUME TypeOK, RequestsAreNew, UNCHANGED toHost,
           \A id \in Ids : handler[id] = NoHandler => handler'[id] = NoHandler
    PROVE  RequestsAreNew'
<1>1. toHost \in Seq(HostMessages)
  BY DEF TypeOK
<1>2. toHost \in [1..Len(toHost) -> HostMessages]
  BY <1>1, LenProperties
<1>3. \A i \in DOMAIN toHost : toHost[i].id \in Ids
  BY <1>2 DEF HostMessages
<1>4. \A i \in DOMAIN toHost :
        IsRequest(toHost[i]) => handler'[toHost[i].id] = NoHandler
  BY <1>3 DEF RequestsAreNew
<1> QED
  BY <1>4 DEF RequestsAreNew

LEMMA LeaveKeeps ==
    ASSUME IInv, NEW id \in Ids, Leave(id), UNCHANGED toHost
    PROVE  /\ handler' \in Handlers
           /\ registry' \in Registries
           /\ Tracks(registry', handler')
           /\ RequestsAreNew'
<1>1. /\ TypeOK /\ RequestsAreNew /\ Tracks(registry, handler)
      /\ registry \in Registries /\ handler \in Handlers
  BY DEF IInv, TypeOK
<1>2. /\ handler' \in Handlers
      /\ handler'[id] = NoHandler
      /\ \A other \in Ids : other # id => handler'[other] = handler[other]
  BY <1>1 DEF Leave, Handlers
<1>3. /\ registry' \in Registries
      /\ registry'.live = registry.live \ {id}
      /\ registry'.aborted = registry.aborted \ {id}
      /\ \A c \in Channels :
           registry'.owner[c] =
             IF registry.owner[c] = id THEN None ELSE registry.owner[c]
  BY <1>1, SettleFields DEF Leave
<1>4. registry'.live \subseteq Ids /\ registry'.aborted \subseteq Ids
  BY <1>3 DEF Registries
<1>5. Tracks(registry', handler')
  <2>1. \A other \in Ids :
          other \in registry'.live
            <=> handler'[other].kind \in Channels /\ other \notin registry'.aborted
    BY <1>1, <1>2, <1>3, NoHandlerHasNoChannel DEF Tracks
  <2>2. \A other \in registry'.aborted : handler'[other] # NoHandler
    BY <1>1, <1>2, <1>3, <1>4 DEF Tracks
  <2>3. \A c \in Channels, other \in Ids :
          registry'.owner[c] = other
            <=> other \in registry'.live /\ handler'[other].kind = c
    BY <1>1, <1>2, <1>3, NoneIsNoId, NoHandlerHasNoChannel DEF Tracks
  <2> QED
    BY <2>1, <2>2, <2>3 DEF Tracks
<1> QED
  BY <1>1, <1>2, <1>3, <1>5, HandlersRemain

LEMMA AwaitKeeps ==
    ASSUME IInv, NEW id \in Ids, NEW at \in Awaits, Await(id, at),
           handler[id] # NoHandler, UNCHANGED toHost
    PROVE  /\ handler' \in Handlers
           /\ registry' \in Registries
           /\ Tracks(registry', handler')
           /\ RequestsAreNew'
<1>1. /\ TypeOK /\ RequestsAreNew /\ Tracks(registry, handler)
      /\ registry \in Registries /\ handler \in Handlers
  BY DEF IInv, TypeOK
<1>2. /\ handler' = [handler EXCEPT ![id].at = at]
      /\ handler[id] \in [at: Awaits, kind: Kinds, of: Generations]
  BY <1>1 DEF Await, Handlers
<1>3. /\ handler' \in Handlers
      /\ handler'[id].kind = handler[id].kind
      /\ handler'[id].at = at
      /\ \A other \in Ids : other # id => handler'[other] = handler[other]
  BY <1>1, <1>2 DEF Handlers
<1>4. handler'[id] # NoHandler
  BY <1>3 DEF NoHandler, Awaits
<1>5. Tracks(registry', handler')
  BY <1>1, <1>3, <1>4 DEF Await, Tracks, Registries
<1> QED
  BY <1>1, <1>3, <1>5, HandlersRemain DEF Await

LEMMA HandlersKeep ==
    ASSUME IInv, NEW id \in Ids, HandlerRuns(id)
    PROVE  IInv' /\ Len(toPanel') >= Len(toPanel)
<1>1. /\ TypeOK /\ RequestsAreNew /\ Tracks(registry, handler)
      /\ MessagesAreTrue /\ PendingIsForTheView
      /\ registry \in Registries /\ handler \in Handlers
  BY DEF IInv, TypeOK
<1>2. /\ UNCHANGED <<panel, toHost, sessionVars>>
      /\ latestRebuild' \in {latestRebuild, None}
  BY DEF HandlerRuns, HandlerAnswers, HandlerFails, ProfileSummaryFollows,
         HandlerEnds, RebuildCallerLeaves
<1>3. ASSUME toPanel' \in Seq(PanelMessages), MessagesAreTrue',
             handler' \in Handlers, registry' \in Registries,
             Tracks(registry', handler'), RequestsAreNew',
             Len(toPanel') >= Len(toPanel)
      PROVE  IInv' /\ Len(toPanel') >= Len(toPanel)
  BY <1>1, <1>2, <1>3 DEF IInv, TypeOK, PendingIsForTheView, sessionVars
<1>4. CASE Leave(id) /\ UNCHANGED toPanel
  <2>1. toPanel \in Seq(PanelMessages) /\ Len(toPanel) >= Len(toPanel)
    <3>1. toPanel \in Seq(PanelMessages)
      BY <1>1 DEF TypeOK
    <3> QED
      BY <3>1, LenProperties
  <2> QED
    BY <1>1, <1>2, <1>3, <1>4, <2>1, LeaveKeeps DEF MessagesAreTrue
<1>5. ASSUME NEW m \in PanelMessages, IsTrue(m), Post(<<m>>),
             NEW at \in Awaits, Await(id, at), handler[id] # NoHandler
      PROVE  IInv' /\ Len(toPanel') >= Len(toPanel)
  <2>1. /\ toPanel' \in Seq(PanelMessages) /\ MessagesAreTrue'
        /\ Len(toPanel') >= Len(toPanel)
    BY <1>1, <1>2, <1>5, PostedOne
  <2> QED
    BY <1>2, <1>3, <1>5, <2>1, AwaitKeeps
<1>6. handler[id] # NoHandler =>
        handler[id].kind \in Kinds /\ handler[id].of \in Generations
  BY <1>1 DEF Handlers
<1>7. CASE HandlerAnswers(id)
  <2>1. handler[id] # NoHandler /\ handler[id].kind # "rebuild"
    BY <1>7 DEF HandlerAnswers, Working, NoHandler
  <2>2. "posting" \in Awaits /\ "last" \in Awaits
    BY DEF Awaits
  <2> QED
    BY <1>4, <1>5, <1>6, <1>7, <2>1, <2>2, MessageTypes DEF HandlerAnswers
<1>8. CASE HandlerFails(id)
  <2>1. handler[id] # NoHandler
    BY <1>8 DEF HandlerFails, Working, NoHandler
  <2>2. "last" \in Awaits
    BY DEF Awaits
  <2> QED
    BY <1>1, <1>4, <1>5, <1>8, <2>1, <2>2, AnswerTypes DEF HandlerFails
<1>9. CASE ProfileSummaryFollows(id)
  <2>1. handler[id] # NoHandler
    BY <1>9 DEF ProfileSummaryFollows, NoHandler
  <2>2. "last" \in Awaits
    BY DEF Awaits
  <2>3. Message("INDEX_PROGRESS", "none", None, handler[id].of, handler[id].of,
                "controller") \in PanelMessages
        /\ IsTrue(Message("INDEX_PROGRESS", "none", None, handler[id].of,
                          handler[id].of, "controller"))
    BY <1>6, <2>1 DEF Message, PanelMessages, IsTrue
  <2> QED
    BY <1>4, <1>5, <1>9, <2>1, <2>2, <2>3 DEF ProfileSummaryFollows
<1>10. CASE HandlerEnds(id) \/ RebuildCallerLeaves(id)
  BY <1>4, <1>10 DEF HandlerEnds, RebuildCallerLeaves
<1> QED
  BY <1>7, <1>8, <1>9, <1>10 DEF HandlerRuns
-----------------------------------------------------------------------------
(* The session's rebuilds and the broadcasts *)

\* The callers of a rebuild that has ended: those that post go on to the
\* delivery of their message, the others are settled.
LEMMA ResumeKeeps ==
    ASSUME IInv, NEW posting \in SUBSET RebuildHandlers,
           CallersResume(posting), UNCHANGED toHost
    PROVE  /\ latestRebuild' = None
           /\ handler' \in Handlers
           /\ registry' \in Registries
           /\ Tracks(registry', handler')
           /\ RequestsAreNew'
<1> DEFINE leaving == RebuildHandlers \ posting
<1>1. /\ TypeOK /\ RequestsAreNew /\ Tracks(registry, handler)
      /\ registry \in Registries /\ handler \in Handlers
  BY DEF IInv, TypeOK
<1>2. /\ posting \subseteq Ids /\ leaving \subseteq Ids
      /\ posting \cap leaving = {}
      /\ \A id \in posting : handler[id] # NoHandler
  BY DEF RebuildHandlers, NoHandler
<1>3. \A id \in Ids :
        handler'[id] = IF id \in posting THEN [handler[id] EXCEPT !.at = "last"]
                       ELSE IF id \in leaving THEN NoHandler ELSE handler[id]
  BY DEF CallersResume
<1>4. /\ registry'.live = registry.live \ leaving
      /\ registry'.aborted = registry.aborted \ leaving
      /\ \A c \in Channels :
           registry'.owner[c] =
             IF registry.owner[c] \in leaving THEN None ELSE registry.owner[c]
      /\ registry' \in Registries
  BY <1>1 DEF CallersResume, Registries
<1>5. ASSUME NEW id \in posting
      PROVE  /\ handler'[id] \in [at: Awaits, kind: Kinds, of: Generations]
             /\ handler'[id].kind = handler[id].kind
             /\ handler'[id] # NoHandler
  <2>1. handler[id] \in [at: Awaits, kind: Kinds, of: Generations]
    BY <1>1, <1>2 DEF Handlers
  <2>2. handler'[id] = [handler[id] EXCEPT !.at = "last"]
    BY <1>2, <1>3
  <2> QED
    BY <2>1, <2>2 DEF Awaits, NoHandler
<1> HIDE DEF leaving
<1>6. handler' \in Handlers
  <2>1. \A id \in Ids :
          handler'[id] \in {NoHandler} \cup [at: Awaits, kind: Kinds, of: Generations]
    BY <1>1, <1>2, <1>3, <1>5 DEF Handlers
  <2>2. handler' = [id \in Ids |-> handler'[id]]
    BY DEF CallersResume
  <2> QED
    BY <2>1, <2>2 DEF Handlers
<1>7. Tracks(registry', handler')
  <2>1. /\ \A id \in leaving : handler'[id] = NoHandler
        /\ \A id \in Ids \ leaving :
             handler'[id].kind = handler[id].kind
               /\ (handler[id] # NoHandler => handler'[id] # NoHandler)
    BY <1>2, <1>3, <1>5
  <2>2. registry'.live \subseteq Ids /\ registry'.aborted \subseteq Ids
    BY <1>4 DEF Registries
  <2>3. \A id \in Ids :
          id \in registry'.live
            <=> handler'[id].kind \in Channels /\ id \notin registry'.aborted
    BY <1>1, <1>4, <2>1, NoHandlerHasNoChannel DEF Tracks
  <2>4. \A id \in registry'.aborted : handler'[id] # NoHandler
    BY <1>1, <1>4, <2>1, <2>2 DEF Tracks
  <2>5. \A c \in Channels, id \in Ids :
          registry'.owner[c] = id <=> id \in registry'.live /\ handler'[id].kind = c
    BY <1>1, <1>2, <1>4, <2>1, NoneIsNoId, NoHandlerHasNoChannel DEF Tracks
  <2> QED
    BY <2>3, <2>4, <2>5 DEF Tracks
<1>8. \A id \in Ids : handler[id] = NoHandler => handler'[id] = NoHandler
  BY <1>2, <1>3
<1> QED
  BY <1>1, <1>4, <1>6, <1>7, <1>8, HandlersRemain DEF CallersResume

\* One message for each of some callers, and perhaps one of the document.
LEMMA MessagesAreFinite ==
    ASSUME NEW callers \in SUBSET Ids, NEW g, DOMAIN g = callers,
           NEW extra, IsFiniteSet(extra)
    PROVE  IsFiniteSet({g[id] : id \in callers} \cup extra)
<1> DEFINE image == {g[id] : id \in callers}
<1>1. IsFiniteSet(callers)
  BY SubsetIsFinite
<1>2. [id \in callers |-> g[id]] \in Surjection(callers, image)
  BY DEF Surjection
<1> HIDE DEF image
<1>3. IsFiniteSet(image)
  BY <1>1, <1>2, FS_Surjection
<1>4. IsFiniteSet(image \cup extra)
  BY <1>3, FS_Union
<1> QED
  BY <1>4 DEF image

LEMMA FewAreFinite == IsFiniteSet({}) /\ \A x : IsFiniteSet({x})
  BY FS_EmptySet, FS_Singleton

\* What a step that only replaces the session's own state has to show.
LEMMA SessionKeeps ==
    ASSUME IInv, UNCHANGED <<panel, toHost>>, latestRebuild' \in Ids \cup {None},
           toPanel' \in Seq(PanelMessages), MessagesAreTrue',
           handler' \in Handlers, registry' \in Registries,
           Tracks(registry', handler'), RequestsAreNew',
           generation' \in Generations,
           rebuild' \in Rebuilds,
           summaryDue' \in Generations \cup {None},
           classifying' \in Generations \cup {None},
           unawaited' \subseteq Generations
    PROVE  IInv'
  BY DEF IInv, TypeOK, PendingIsForTheView, Rebuilds

LEMMA RebuildAdoptsKeeps ==
    ASSUME IInv, RebuildAdopts
    PROVE  IInv' /\ Len(toPanel') >= Len(toPanel)
<1> DEFINE g == generation'
           answers == [id \in Publishers |->
                         Message("OPENED", "none", id, g, g, "controller")]
           extra == IF rebuild.document
                    THEN {Message("OPENED", "none", None, g, g, "document")}
                    ELSE {}
           messages == {answers[id] : id \in Publishers} \cup extra
<1>1. /\ TypeOK /\ RequestsAreNew /\ Tracks(registry, handler) /\ MessagesAreTrue
      /\ UNCHANGED <<panel, toHost, summaryDue, classifying>>
  BY DEF IInv, RebuildAdopts
<1>2. g \in Generations
  BY <1>1, GenerationsAssumption DEF RebuildAdopts, TypeOK, Generations
<1>3. Publishers \in SUBSET RebuildHandlers /\ Publishers \in SUBSET Ids
  BY DEF Publishers, RebuildHandlers
<1>4. \E posts \in SetToSeqs(messages) : Post(posts)
  <2>1. {Message("OPENED", "none", id, g, g, "controller") : id \in Publishers}
          = {answers[id] : id \in Publishers}
    OBVIOUS
  <2> QED
    BY <2>1 DEF RebuildAdopts
<1>5. messages \in SUBSET PanelMessages /\ \A m \in messages : IsTrue(m)
  BY <1>2, <1>3 DEF Message, PanelMessages, IsTrue
<1>6. IsFiniteSet(messages)
  <2>1. IsFiniteSet(extra)
    BY FewAreFinite
  <2>2. DOMAIN answers = Publishers
    OBVIOUS
  <2> HIDE DEF answers, extra
  <2> QED
    BY <1>3, <2>1, <2>2, MessagesAreFinite
<1> HIDE DEF messages
<1>7. /\ toPanel' \in Seq(PanelMessages) /\ MessagesAreTrue'
      /\ Len(toPanel') >= Len(toPanel)
  BY <1>1, <1>4, <1>5, <1>6, PostedSet
<1>8. /\ handler' \in Handlers /\ registry' \in Registries
      /\ Tracks(registry', handler') /\ RequestsAreNew' /\ latestRebuild' = None
  BY <1>1, <1>3, ResumeKeeps DEF RebuildAdopts
<1>9. /\ rebuild' \in Rebuilds
      /\ summaryDue' \in Generations \cup {None}
      /\ classifying' \in Generations \cup {None}
      /\ unawaited' \subseteq Generations
  BY <1>1, <1>2 DEF RebuildAdopts, TypeOK, Rebuilds, Stages, NoRebuild
<1> QED
  BY <1>1, <1>2, <1>7, <1>8, <1>9, SessionKeeps

LEMMA RebuildRejectsKeeps ==
    ASSUME IInv, RebuildRejects
    PROVE  IInv' /\ Len(toPanel') >= Len(toPanel)
<1> DEFINE callers == Callers
           answers == [id \in callers |-> Error(id, "controller")]
<1>1. /\ TypeOK /\ RequestsAreNew /\ Tracks(registry, handler) /\ MessagesAreTrue
      /\ UNCHANGED <<panel, toHost, generation, summaryDue, classifying, unawaited>>
  BY DEF IInv, RebuildRejects
<1>2. callers \in SUBSET RebuildHandlers /\ callers \in SUBSET Ids
  BY DEF Callers, RebuildHandlers
<1>3. PICK extra \in {{}, {Error(None, "document")}} :
        \E posts \in SetToSeqs({answers[id] : id \in callers} \cup extra) :
          Post(posts)
  <2>1. {Error(id, "controller") : id \in callers} = {answers[id] : id \in callers}
    OBVIOUS
  <2>2. PICK reconcile \in {FALSE, rebuild.document /\ Quiet} :
          \E posts \in SetToSeqs({Error(id, "controller") : id \in callers}
                \cup (IF reconcile THEN {Error(None, "document")} ELSE {})) :
            Post(posts)
    BY DEF RebuildRejects
  <2> DEFINE extra == IF reconcile THEN {Error(None, "document")} ELSE {}
  <2>3. extra \in {{}, {Error(None, "document")}}
    OBVIOUS
  <2>4. \E posts \in SetToSeqs({answers[id] : id \in callers} \cup extra) :
          Post(posts)
    BY <2>1, <2>2
  <2> HIDE DEF extra, callers, answers
  <2> QED
    BY <2>3, <2>4
<1> DEFINE messages == {answers[id] : id \in callers} \cup extra
<1>4. messages \in SUBSET PanelMessages /\ \A m \in messages : IsTrue(m)
  BY <1>1, <1>2, <1>3, AnswerTypes
<1>5. IsFiniteSet(messages)
  <2>1. IsFiniteSet(extra)
    BY <1>3, FewAreFinite
  <2>2. DOMAIN answers = callers
    OBVIOUS
  <2> HIDE DEF answers
  <2> QED
    BY <1>2, <2>1, <2>2, MessagesAreFinite
<1>6. /\ toPanel' \in Seq(PanelMessages) /\ MessagesAreTrue'
      /\ Len(toPanel') >= Len(toPanel)
  <2> HIDE DEF messages
  <2> QED
    BY <1>1, <1>3, <1>4, <1>5, PostedSet DEF messages
<1>7. /\ handler' \in Handlers /\ registry' \in Registries
      /\ Tracks(registry', handler') /\ RequestsAreNew' /\ latestRebuild' = None
  BY <1>1, <1>2, ResumeKeeps DEF RebuildRejects
<1>8. /\ rebuild' \in Rebuilds
      /\ generation' \in Generations
      /\ summaryDue' \in Generations \cup {None}
      /\ classifying' \in Generations \cup {None}
      /\ unawaited' \subseteq Generations
  BY <1>1 DEF RebuildRejects, TypeOK, Rebuilds, Stages, NoRebuild
<1> QED
  BY <1>1, <1>6, <1>7, <1>8, SessionKeeps

\* The steps of the document that post one message to nobody in particular, or
\* none.
DocumentSteps ==
    \/ DocumentRebuilds
    \/ RecoveryAdopts
    \/ RecoveryGivesUp
    \/ \E profileChanged \in BOOLEAN : IndexingProgresses(profileChanged)
    \/ SummaryFollows
    \/ ClassificationStarts
    \/ \E reason \in Reasons \cup {"none"} : ClassificationEnds(reason)

LEMMA DocumentKeeps ==
    ASSUME IInv, DocumentSteps
    PROVE  IInv' /\ Len(toPanel') >= Len(toPanel)
<1>1. /\ TypeOK /\ RequestsAreNew /\ Tracks(registry, handler) /\ MessagesAreTrue
      /\ handler \in Handlers /\ registry \in Registries
      /\ toPanel \in Seq(PanelMessages) /\ Len(toPanel) \in Nat
  <2>1. toPanel \in Seq(PanelMessages)
    BY DEF IInv, TypeOK
  <2> QED
    BY <2>1, LenProperties DEF IInv, TypeOK
<1>2. UNCHANGED <<panel, toHost, hostVars>>
  BY DEF DocumentSteps, DocumentRebuilds, RecoveryAdopts, RecoveryGivesUp,
         IndexingProgresses, SummaryFollows, ClassificationStarts, ClassificationEnds
<1>3. RequestsAreNew' /\ Tracks(registry', handler')
      /\ handler' \in Handlers /\ registry' \in Registries
      /\ UNCHANGED <<panel, toHost>> /\ latestRebuild' \in Ids \cup {None}
  BY <1>1, <1>2 DEF RequestsAreNew, hostVars, TypeOK
<1>4. /\ generation' \in Generations
      /\ rebuild' \in Rebuilds
      /\ summaryDue' \in Generations \cup {None}
      /\ classifying' \in Generations \cup {None}
      /\ unawaited' \subseteq Generations
  <2>1. /\ generation \in Generations
        /\ rebuild \in Rebuilds
        /\ summaryDue \in Generations \cup {None}
        /\ classifying \in Generations \cup {None}
        /\ unawaited \subseteq Generations
    BY <1>1 DEF TypeOK, Rebuilds
  <2>2. generation < MaxGenerations => generation + 1 \in Generations
    BY <2>1, GenerationsAssumption DEF Generations
  <2>3. CASE DocumentRebuilds
    BY <2>1, <2>3, RebuildTypes DEF DocumentRebuilds
  <2>7. CASE RecoveryAdopts \/ RecoveryGivesUp
    <3>1. /\ \/ generation' = generation
             \/ generation < MaxGenerations /\ generation' = generation + 1
          /\ QueueMovesOn
          /\ UNCHANGED <<summaryDue, classifying, unawaited>>
      BY <2>7 DEF RecoveryAdopts, RecoveryGivesUp
    <3> QED
      BY <2>1, <2>2, <3>1, RebuildTypes
  <2>4. CASE ClassificationStarts \/ SummaryFollows
    BY <2>1, <2>4 DEF ClassificationStarts, SummaryFollows
  <2>5. ASSUME NEW profileChanged \in BOOLEAN, IndexingProgresses(profileChanged)
        PROVE  UNCHANGED <<generation, rebuild, classifying, unawaited>>
                 /\ summaryDue' \in {summaryDue, generation}
    BY <2>5 DEF IndexingProgresses
  <2>6. ASSUME NEW reason \in Reasons \cup {"none"}, ClassificationEnds(reason)
        PROVE  UNCHANGED <<generation, rebuild, summaryDue, unawaited>> /\ classifying' = None
    BY <2>6 DEF ClassificationEnds
  <2> QED
    BY <2>1, <2>3, <2>4, <2>5, <2>6, <2>7 DEF DocumentSteps
<1>5. \/ toPanel' = toPanel
      \/ \E m \in PanelMessages : IsTrue(m) /\ Post(<<m>>)
  <2>1. ASSUME NEW type \in {"PROFILE_CHANGED", "INDEX_PROGRESS"},
               NEW of \in Generations
        PROVE  LET m == Message(type, "none", None, generation, of, "document")
               IN  m \in PanelMessages /\ IsTrue(m)
    BY <1>1 DEF TypeOK, Message, PanelMessages, IsTrue
  <2>2. ASSUME NEW reason \in Reasons, NEW of \in Generations
        PROVE  LET m == Message("SOURCE_INVALIDATED", reason, None, generation,
                                of, "document")
               IN  m \in PanelMessages /\ IsTrue(m)
    BY <1>1 DEF TypeOK, Message, PanelMessages, IsTrue
  <2>3. LET m == Message("OPENED", "none", None, generation', generation',
                         "document")
        IN  m \in PanelMessages /\ IsTrue(m)
    BY <1>4 DEF Message, PanelMessages, IsTrue
  <2>4. CASE DocumentRebuilds \/ ClassificationStarts \/ RecoveryGivesUp
    BY <2>4 DEF DocumentRebuilds, ClassificationStarts, RecoveryGivesUp
  <2>5. CASE RecoveryAdopts
    BY <2>3, <2>5 DEF RecoveryAdopts
  <2>6. ASSUME NEW profileChanged \in BOOLEAN, IndexingProgresses(profileChanged)
        PROVE  \E m \in PanelMessages : IsTrue(m) /\ Post(<<m>>)
    <3>1. generation \in Generations
      BY <1>1 DEF TypeOK
    <3> QED
      BY <2>1, <2>6, <3>1 DEF IndexingProgresses, Broadcast
  <2>7. CASE SummaryFollows
    <3>1. summaryDue \in Generations
      BY <1>1, <2>7 DEF TypeOK, SummaryFollows
    <3> QED
      BY <2>1, <2>7, <3>1 DEF SummaryFollows, Broadcast
  <2>8. ASSUME NEW reason \in Reasons \cup {"none"}, ClassificationEnds(reason)
        PROVE  \/ toPanel' = toPanel
               \/ \E m \in PanelMessages : IsTrue(m) /\ Post(<<m>>)
    <3>1. classifying \in Generations
      BY <1>1, <2>8 DEF TypeOK, ClassificationEnds
    <3> QED
      BY <2>2, <2>8, <3>1 DEF ClassificationEnds, Broadcast
  <2> QED
    BY <2>4, <2>5, <2>6, <2>7, <2>8 DEF DocumentSteps
<1>6. /\ toPanel' \in Seq(PanelMessages) /\ MessagesAreTrue'
      /\ Len(toPanel') >= Len(toPanel)
  <2>1. CASE toPanel' = toPanel
    BY <1>1, <2>1 DEF MessagesAreTrue
  <2>2. CASE \E m \in PanelMessages : IsTrue(m) /\ Post(<<m>>)
    BY <1>1, <1>3, <2>2, PostedOne
  <2> QED
    BY <1>5, <2>1, <2>2
<1> QED
  BY <1>3, <1>4, <1>6, SessionKeeps
-----------------------------------------------------------------------------
(* The invariant, and what follows from it *)

LEMMA InitialInvariant == Init => IInv
<1> SUFFICES ASSUME Init PROVE IInv
  OBVIOUS
<1> DEFINE first == CHOOSE id \in Ids : TRUE
<1>1. first \in Ids
  BY IdsAssumption
<1> HIDE DEF first
<1>2. 1 \in Generations
  BY GenerationsAssumption DEF Generations
<1>3. panel = [Page EXCEPT !.pending[first] = [kind |-> "ready", gen |-> 1]]
      /\ toHost = <<[type |-> "ready", id |-> first, gen |-> 1]>>
      /\ toPanel = <<>>
      /\ handler = [id \in Ids |-> NoHandler]
      /\ registry = [live |-> {}, owner |-> [c \in Channels |-> None],
                     aborted |-> {}]
      /\ latestRebuild = None
      /\ generation = 1
      /\ rebuild = [at |-> "none", document |-> FALSE]
      /\ summaryDue = None
      /\ classifying = None
      /\ unawaited = {}
  BY DEF Init, first, NoRebuild
<1>4. panel \in Panels /\ panel.view \notin panel.retired /\ PendingIsForTheView
  BY <1>1, <1>2, <1>3 DEF Panels, Page, Requests, PendingIsForTheView
<1>5. toHost \in Seq(HostMessages) /\ RequestsAreNew
  BY <1>1, <1>2, <1>3 DEF HostMessages, RequestsAreNew
<1>6. toPanel \in Seq(PanelMessages) /\ MessagesAreTrue
  BY <1>3, EmptySeq DEF MessagesAreTrue
<1>7. /\ handler \in Handlers /\ registry \in Registries
      /\ Tracks(registry, handler)
  BY <1>3, NoneIsNoId, NoHandlerHasNoChannel DEF Handlers, Registries, Tracks
<1> QED
  BY <1>2, <1>3, <1>4, <1>5, <1>6, <1>7 DEF IInv, TypeOK, Stages

LEMMA StepInvariant == IInv /\ [Next]_vars => IInv'
<1> SUFFICES ASSUME IInv, [Next]_vars PROVE IInv'
  OBVIOUS
<1>1. CASE \/ \E kind \in Kinds : SendRequest(kind)
           \/ Deliver \/ Hide \/ Show
  BY <1>1, WebviewKeeps
<1>2. CASE HostReceives
  BY <1>2, ReceivingKeeps
<1>3. ASSUME NEW id \in Ids, HandlerRuns(id) PROVE IInv'
  BY <1>3, HandlersKeep
<1>4. CASE RebuildEnds
  BY <1>4, RebuildAdoptsKeeps, RebuildRejectsKeeps, DocumentKeeps
     DEF RebuildEnds, DocumentSteps
<1>5. CASE DocumentSteps
  BY <1>5, DocumentKeeps
<1>6. CASE UNCHANGED vars
  BY <1>6 DEF vars, IInv, TypeOK, RequestsAreNew, Tracks, MessagesAreTrue,
              PendingIsForTheView
<1> QED
  BY <1>1, <1>2, <1>3, <1>4, <1>5, <1>6 DEF Next, DocumentSteps

\* Whatever is sent, cancelled, answered, hidden, shown or adopted, in any order
\* of the two channels, a request under way has an id of its own, the registry
\* fits the handlers, and messages and pending requests name generations truly.
THEOREM Invariance == Spec => []IInv
<1> QED
  BY InitialInvariant, StepInvariant, PTL DEF Spec

\* The panel, the messages, the handlers and the registry have their types
\* (the fields of VsCodeMessageClient and DocumentController).
THEOREM TypeCorrect == Spec => []TypeOK
<1>1. IInv => TypeOK
  BY DEF IInv
<1> QED
  BY <1>1, Invariance, PTL

\* The cancellation registry holds the running requests that were not aborted
\* and no others, one in a channel, for any number of requests.
THEOREM RegistryHolds == Spec => []RegistryTracksWork
<1>1. IInv => RegistryTracksWork
  BY TracksIsRegistry DEF IInv, TypeOK
<1> QED
  BY <1>1, Invariance, PTL

\* Only a delivery takes a message that a page goes on to show.
LEMMA OnlyDeliveryTakes ==
    ASSUME IInv, [Next]_vars, toPanel # <<>>, toPanel' = Tail(toPanel), panel'.live
    PROVE  Deliver
<1>1. toPanel \in Seq(PanelMessages)
  BY DEF IInv, TypeOK
<1>2. Len(toPanel) \in Nat /\ Len(toPanel') = Len(toPanel) - 1
  BY <1>1, HeadTailProperties, LenProperties
<1> DEFINE n == Len(toPanel)
           n1 == Len(toPanel')
<1>3. n \in Nat /\ n1 = n - 1
  BY <1>2
<1>4. toPanel' = toPanel => n1 = n
  OBVIOUS
<1> HIDE DEF n, n1
<1>5. ~(n1 >= n) /\ n1 # n
  BY <1>3
<1>6. toPanel' # toPanel /\ ~(Len(toPanel') >= Len(toPanel))
  BY <1>4, <1>5 DEF n, n1
<1>7. ~ \E kind \in Kinds : SendRequest(kind)
  BY <1>6 DEF SendRequest
<1>8. ~Show /\ ~UNCHANGED vars
  BY <1>6 DEF Show, vars
<1>9. ~Hide
  BY DEF Hide, Page
<1>10. ~HostReceives /\ ~ \E id \in Ids : HandlerRuns(id)
  BY <1>6, ReceivingKeeps, HandlersKeep
<1>11. ~RebuildEnds /\ ~DocumentSteps
  BY <1>6, RebuildAdoptsKeeps, RebuildRejectsKeeps, DocumentKeeps
     DEF RebuildEnds, DocumentSteps
<1> QED
  BY <1>7, <1>8, <1>9, <1>10, <1>11 DEF Next, DocumentSteps

\* What a panel takes from its controller was read from the generation it
\* shows: postIfCurrent and shouldAcceptMessage agree, whatever was adopted in
\* between, and no request is pending for a generation that is not shown.
THEOREM AnswersHold == Spec => AnswersAreOfTheView
<1>1. IInv => PendingIsForTheView
  BY DEF IInv
<1> DEFINE Taken == /\ toPanel # <<>>
                    /\ panel'.live
                    /\ toPanel' = Tail(toPanel)
                    /\ Accepts(Head(toPanel))
                    /\ Head(toPanel).from = "controller"
<1>2. ASSUME IInv, [Next]_vars, Taken
      PROVE  Head(toPanel).of = panel'.view
  <2>1. Head(toPanel).label = panel'.view
    BY <1>2, OnlyDeliveryTakes, Delivered
  <2>2. IsTrue(Head(toPanel))
    <3>1. toPanel \in Seq(PanelMessages) /\ toPanel # <<>>
      BY <1>2 DEF IInv, TypeOK
    <3>2. 1 \in DOMAIN toPanel /\ Head(toPanel) = toPanel[1]
      BY <3>1, LenProperties, EmptySeq
    <3> QED
      BY <1>2, <3>2 DEF IInv, MessagesAreTrue
  <2> QED
    BY <1>2, <2>1, <2>2 DEF IsTrue
<1>3. IInv /\ [Next]_vars => [Taken => Head(toPanel).of = panel'.view]_vars
  BY <1>2
<1>4. Spec => AnswersAreReadFromTheView
  BY <1>3, Invariance, PTL DEF Spec, AnswersAreReadFromTheView
<1> QED
  BY <1>1, <1>4, Invariance, PTL DEF AnswersAreOfTheView
=============================================================================
