----------------------------- MODULE ServicesProofs -----------------------------
(***************************************************************************)
(* Proofs about the services: about module Stats, for any urls and         *)
(* clusters and any number of switches, hidden tabs and retries; about the *)
(* search bar of Services, for any texts, tables and calls; and about the  *)
(* header and the price of a token, for any accounts and token lists.      *)
(***************************************************************************)
EXTENDS Services, TLAPS

(* The fields are of the url the effects last ran with.  Before the first  *)
(* effects that is None.                                                   *)
DashboardOf(u) ==
  dashboard.slotTime \in {None, u} /\ dashboard.slot \in {None, u} /\ dashboard.blockTime \in {None, u}
PerformanceOf(u) == performance.tps \in {None, u} /\ performance.count \in {None, u}

NoError == dashboard.status # "Error" /\ performance.status # "Error"

(* The stats are off after an error, and only a reset switches them on.    *)
ErrorIsInactive == NoError \/ ~active

(* The effect that runs while the stats are off leaves nothing in flight   *)
(* that still counts.                                                      *)
NothingLive == ran.active \/ live = {}

MountIsLoading == ran.url = None => NoError

(* The inductive invariant. *)
IInv == /\ TypeOK /\ DashboardOf(ran.url) /\ PerformanceOf(ran.url)
        /\ ErrorIsInactive /\ NothingLive /\ MountIsLoading

-------------------------------------------------------------------------------
LEMMA RenderedType ==
  ASSUME TypeOK
  PROVE  /\ Rendered.url = url /\ Rendered.visible = visible /\ Rendered.active = active
         /\ Rendered \in [url : Url \cup {None}, visible : BOOLEAN, active : BOOLEAN, shows : Shown]
<1>1. \A card \in Card : CardShows(card) \in {"data", "error", "waiting"}
  BY DEF CardShows
<1>. QED
  BY <1>1 DEF Rendered, TypeOK, Shown

(* Where the effects are done they ran with what is there now. *)
LEMMA RanIsCurrent ==
  ASSUME TypeOK, EffectsDone
  PROVE  ran.url = url /\ ran.active = active
BY RenderedType DEF EffectsDone

(* The infos after the actions that fill them, with u the url polled. *)
LEMMA ErrorType ==
  ASSUME TypeOK, NEW u, DashboardOf(u), PerformanceOf(u)
  PROVE  /\ SetError(dashboard) \in Dashboard
         /\ SetError(performance) \in Performance
         /\ dashboard' \in {dashboard, SetError(dashboard)} => DashboardOf(u)'
         /\ performance' \in {performance, SetError(performance)} => PerformanceOf(u)'
BY DEF TypeOK, Dashboard, Performance, SetError, DashboardOf, PerformanceOf

LEMMA ResetType ==
  ASSUME NEW u, resetData
  PROVE  /\ dashboard' \in Dashboard /\ performance' \in Performance
         /\ DashboardOf(u)' /\ PerformanceOf(u)' /\ NoError'
BY DEF resetData, initialDashboardInfo, initialPerformanceInfo, Dashboard, Performance,
       DashboardOf, PerformanceOf, NoError

(* An answer puts the url of the effect that asked, and never an error.    *)
LEMMA AnswerType ==
  ASSUME TypeOK, DashboardOf(url), PerformanceOf(url), NEW kind \in Kind, Succeed(kind)
  PROVE  /\ dashboard' \in Dashboard /\ performance' \in Performance
         /\ DashboardOf(url)' /\ PerformanceOf(url)'
         /\ NoError => NoError'
<1>1. \A x : ReadyIf(x) \in {"Loading", "Ready"}
  BY DEF ReadyIf
<1>u. url' = url /\ url \in Url
  BY DEF Succeed, TypeOK
<1>2. CASE UNCHANGED infos
  BY <1>2, <1>u DEF infos, TypeOK, DashboardOf, PerformanceOf, NoError
<1>3. ASSUME NEW samples \in {"none", "quiet", "busy"}, SamplesAnswered(samples)
      PROVE  /\ dashboard' \in Dashboard /\ performance' \in Performance
             /\ DashboardOf(url)' /\ PerformanceOf(url)' /\ (NoError => NoError')
  <2>1. CASE samples = "none"
    BY <1>2, <1>3, <2>1 DEF SamplesAnswered
  <2>2. CASE samples # "none"
    <3>1. /\ dashboard' = [dashboard EXCEPT !.slotTime = url, !.status = ReadyIf(dashboard.slot)]
          /\ \E x \in {None, url} : performance' = [performance EXCEPT !.tps = x, !.status = ReadyIf(performance.count)]
      BY <1>3, <2>2 DEF SamplesAnswered
    <3>2. dashboard' \in Dashboard /\ DashboardOf(url)' /\ dashboard'.status # "Error"
      BY <1>1, <1>u, <3>1 DEF TypeOK, Dashboard, DashboardOf
    <3>3. performance' \in Performance /\ PerformanceOf(url)' /\ performance'.status # "Error"
      <4>1. PICK x \in {None, url} :
              performance' = [performance EXCEPT !.tps = x, !.status = ReadyIf(performance.count)]
        BY <3>1
      <4>2. performance' \in Performance /\ performance'.status # "Error"
        BY <1>1, <4>1 DEF TypeOK, Performance
      <4>3. performance'.tps = x /\ performance'.count = performance.count
        BY <4>1 DEF TypeOK, Performance
      <4>. QED
        BY <1>u, <4>2, <4>3 DEF PerformanceOf
    <3>. QED
      BY <3>2, <3>3 DEF NoError
  <2>. QED
    BY <2>1, <2>2
<1>4. CASE performance' = [performance EXCEPT !.count = url, !.status = ReadyIf(performance.tps)] /\ UNCHANGED dashboard
  BY <1>1, <1>u, <1>4 DEF TypeOK, Performance, PerformanceOf, DashboardOf, NoError
<1>5. CASE dashboard' = [dashboard EXCEPT !.slot = url, !.status = ReadyIf(dashboard.slotTime)] /\ UNCHANGED performance
  BY <1>1, <1>u, <1>5 DEF TypeOK, Dashboard, PerformanceOf, DashboardOf, NoError
<1>6. CASE dashboard' = [dashboard EXCEPT !.blockTime = url] /\ UNCHANGED performance
  BY <1>u, <1>6 DEF TypeOK, Dashboard, PerformanceOf, DashboardOf, NoError
<1>7. CASE \E samples \in {"none", "quiet", "busy"} : SamplesAnswered(samples)
  BY <1>3, <1>7
<1>. QED
  <2>1. \/ \E samples \in {"none", "quiet", "busy"} : SamplesAnswered(samples)
        \/ performance' = [performance EXCEPT !.count = url, !.status = ReadyIf(performance.tps)] /\ UNCHANGED dashboard
        \/ dashboard' = [dashboard EXCEPT !.slot = url, !.status = ReadyIf(dashboard.slotTime)] /\ UNCHANGED performance
        \/ dashboard' = [dashboard EXCEPT !.blockTime = url] /\ UNCHANGED performance
    BY Zenon DEF Succeed
  <2>. QED
    BY <2>1, <1>4, <1>5, <1>6, <1>7

(* A failure: each info stays or has an error, and the stats are off.      *)
LEMMA CatchType ==
  ASSUME TypeOK, NEW u, DashboardOf(u), PerformanceOf(u), NEW kind, Catch(kind)
  PROVE  /\ dashboard' \in Dashboard /\ performance' \in Performance
         /\ DashboardOf(u)' /\ PerformanceOf(u)' /\ ~active'
BY ErrorType DEF Catch, TypeOK

-------------------------------------------------------------------------------
LEMMA InitInv == Init => IInv
<1>. SUFFICES ASSUME Init PROVE IInv
  OBVIOUS
<1>1. TypeOK
  BY DEF Init, TypeOK, initialDashboardInfo, initialPerformanceInfo, Dashboard, Performance,
         Unmounted, Shown
<1>2. DashboardOf(ran.url) /\ PerformanceOf(ran.url) /\ NoError
  BY DEF Init, DashboardOf, PerformanceOf, NoError, initialDashboardInfo, initialPerformanceInfo
<1>. QED
  BY <1>1, <1>2 DEF IInv, ErrorIsInactive, NothingLive, MountIsLoading, Init

(* An action that finds the effects done, and leaves what they ran with.   *)
LEMMA QuietStep ==
  ASSUME IInv, EffectsDone, UNCHANGED ran,
         url' \in Url, visible' \in BOOLEAN, active' \in BOOLEAN,
         dashboard' \in Dashboard, performance' \in Performance,
         DashboardOf(ran.url)', PerformanceOf(ran.url)',
         ErrorIsInactive', ran.active \/ live' = {}
  PROVE  IInv'
<1>1. ran.url # None
  BY RanIsCurrent, NoneAssumption DEF IInv, TypeOK
<1>. QED
  BY <1>1 DEF IInv, TypeOK, NothingLive, MountIsLoading

LEMMA StepInv == IInv /\ [Next]_vars => IInv'
<1>. SUFFICES ASSUME IInv, [Next]_vars PROVE IInv'
  OBVIOUS
<1>t. TypeOK /\ DashboardOf(ran.url) /\ PerformanceOf(ran.url)
  BY DEF IInv
<1>0. /\ dashboard \in Dashboard /\ performance \in Performance
      /\ url \in Url /\ visible \in BOOLEAN /\ active \in BOOLEAN
  BY <1>t DEF TypeOK
<1>s. ASSUME UNCHANGED <<infos, ran>>
      PROVE  /\ dashboard' \in Dashboard /\ performance' \in Performance
             /\ DashboardOf(ran.url)' /\ PerformanceOf(ran.url)'
  BY <1>s, <1>t, <1>0 DEF infos, DashboardOf, PerformanceOf
<1>d. ASSUME EffectsDone PROVE ran.url = url /\ ran.active = active
  BY <1>d, <1>t, RanIsCurrent
<1>1. ASSUME NEW u \in Url, Switch(u) PROVE IInv'
  <2>1. EffectsDone /\ UNCHANGED <<infos, ran, visible, active, live>> /\ url' \in Url
    BY <1>1 DEF Switch
  <2>2. ErrorIsInactive' /\ (ran.active \/ live' = {})
    BY <2>1 DEF IInv, ErrorIsInactive, NoError, NothingLive, infos
  <2>. QED
    BY <2>1, <2>2, <1>s, <1>0, QuietStep
<1>2. CASE ToggleTab
  <2>1. EffectsDone /\ UNCHANGED <<infos, ran, url, active, live>> /\ visible' \in BOOLEAN
    BY <1>2 DEF ToggleTab
  <2>2. ErrorIsInactive' /\ (ran.active \/ live' = {})
    BY <2>1 DEF IInv, ErrorIsInactive, NoError, NothingLive, infos
  <2>. QED
    BY <2>1, <2>2, <1>s, <1>0, QuietStep
<1>3. CASE Effects
  <2>1. ran' = Rendered /\ UNCHANGED <<url, visible>>
    BY <1>3 DEF Effects
  <2>2. ran'.url = url /\ ran'.active = active /\ ran'.url # None
    BY <2>1, <1>t, <1>0, RenderedType, NoneAssumption
  <2>3. ran' \in [url : Url \cup {None}, visible : BOOLEAN, active : BOOLEAN, shows : Shown]
    BY <2>1, <1>t, RenderedType
  <2>4. active' \in BOOLEAN /\ (active' = active \/ ClusterChanged)
    BY <1>3, <1>0, Zenon DEF Effects, ActiveEffect, ClusterChanged
  <2>5. active \/ live' = {}
    <3>1. CASE [ran EXCEPT !.shows = Rendered.shows] = Rendered
      <4>1. ran.active = active
        BY <3>1, <1>t, RenderedType DEF TypeOK
      <4>2. live' = live
        BY <1>3, <3>1 DEF Effects, PollingEffect
      <4>. QED
        BY <4>1, <4>2 DEF IInv, NothingLive
    <3>2. CASE [ran EXCEPT !.shows = Rendered.shows] # Rendered
      BY <1>3, <3>2 DEF Effects, PollingEffect
    <3>. QED
      BY <3>1, <3>2
  <2>6. CASE ran.url \in {None, url}
    <3>1. UNCHANGED infos
      BY <1>3, <2>6 DEF Effects, ResetEffect
    <3>2. dashboard' \in Dashboard /\ performance' \in Performance
      BY <3>1, <1>0 DEF infos
    <3>3. DashboardOf(ran.url)' /\ PerformanceOf(ran.url)'
      BY <3>1, <2>2, <2>6, <1>t DEF infos, DashboardOf, PerformanceOf
    <3>4. ErrorIsInactive'
      <4>1. CASE ran.url = None
        BY <4>1, <3>1 DEF IInv, MountIsLoading, ErrorIsInactive, NoError, infos
      <4>2. CASE ran.url = url /\ ran.url # None
        BY <4>2, <3>1, <2>4 DEF IInv, ClusterChanged, ErrorIsInactive, NoError, infos
      <4>. QED
        BY <2>6, <4>1, <4>2
    <3>. QED
      BY <2>1, <2>2, <2>3, <2>4, <2>5, <3>2, <3>3, <3>4, <1>0 DEF IInv, TypeOK, NothingLive, MountIsLoading
  <2>7. CASE ran.url \notin {None, url}
    <3>1. resetData
      BY <1>3, <2>7 DEF Effects, ResetEffect
    <3>2. dashboard' \in Dashboard /\ performance' \in Performance
      BY <3>1, ResetType
    <3>3. DashboardOf(ran.url)' /\ PerformanceOf(ran.url)' /\ NoError'
      BY <3>1 DEF resetData, initialDashboardInfo, initialPerformanceInfo, DashboardOf, PerformanceOf, NoError
    <3>. QED
      BY <2>1, <2>2, <2>3, <2>4, <2>5, <3>2, <3>3, <1>0
         DEF IInv, TypeOK, NothingLive, MountIsLoading, ErrorIsInactive
  <2>. QED
    BY <2>6, <2>7
<1>4. ASSUME NEW kind \in Kind, Tick(kind) PROVE IInv'
  <2>1. EffectsDone /\ active /\ UNCHANGED <<url, visible, active, infos, ran>>
    BY <1>4 DEF Tick
  <2>2. ErrorIsInactive' /\ ran.active
    BY <2>1, <1>d DEF IInv, ErrorIsInactive, NoError, infos
  <2>. QED
    BY <2>1, <2>2, <1>s, <1>0, QuietStep
<1>5. ASSUME NEW kind \in Kind, Succeed(kind) PROVE IInv'
  <2>1. EffectsDone /\ UNCHANGED <<url, visible, active, ran>> /\ live # {} /\ live' \subseteq live
    BY <1>5 DEF Succeed
  <2>2. /\ dashboard' \in Dashboard /\ performance' \in Performance
        /\ DashboardOf(ran.url)' /\ PerformanceOf(ran.url)' /\ (NoError => NoError')
    <3>1. ran.url = url /\ DashboardOf(url) /\ PerformanceOf(url)
      BY <2>1, <1>d, <1>t
    <3>. QED
      BY <3>1, <2>1, <1>t, <1>5, AnswerType DEF DashboardOf, PerformanceOf
  <2>3. ran.active /\ active /\ NoError
    BY <2>1, <1>d DEF IInv, NothingLive, ErrorIsInactive
  <2>. QED
    BY <2>1, <2>2, <2>3, <1>0, QuietStep DEF ErrorIsInactive
<1>c. ASSUME NEW kind, Catch(kind), EffectsDone, ran.active \/ live' = {} PROVE IInv'
  <2>1. UNCHANGED <<url, visible, ran>> /\ active' = FALSE
    BY <1>c DEF Catch
  <2>2. /\ dashboard' \in Dashboard /\ performance' \in Performance
        /\ DashboardOf(ran.url)' /\ PerformanceOf(ran.url)'
    <3>1. dashboard' \in {dashboard, SetError(dashboard)} /\ performance' \in {performance, SetError(performance)}
      BY <1>c DEF Catch
    <3>. QED
      BY <3>1, <2>1, <1>0, <1>t, ErrorType DEF DashboardOf, PerformanceOf
  <2>. QED
    BY <2>1, <2>2, <1>c, <1>0, QuietStep DEF ErrorIsInactive
<1>6. ASSUME NEW kind \in Kind, Fail(kind) PROVE IInv'
  <2>1. EffectsDone /\ live # {}
    BY <1>6 DEF Fail
  <2>2. ran.active
    BY <2>1 DEF IInv, NothingLive
  <2>3. CASE kind = "blockTime"
    <3>1. UNCHANGED <<url, visible, active, infos, ran>>
      BY <1>6, <2>3 DEF Fail
    <3>2. ErrorIsInactive'
      BY <3>1 DEF IInv, ErrorIsInactive, NoError, infos
    <3>. QED
      BY <2>1, <2>2, <3>1, <3>2, <1>s, <1>0, QuietStep
  <2>4. CASE kind # "blockTime"
    BY <2>1, <2>2, <2>4, <1>6, <1>c DEF Fail
  <2>. QED
    BY <2>3, <2>4
<1>7. ASSUME NEW kind \in FailingKind, StaleAnswered(kind) PROVE IInv'
  <2>1. EffectsDone /\ (ran.active \/ live' = {})
    BY <1>7 DEF StaleAnswered, IInv, NothingLive
  <2>2. CASE UNCHANGED <<url, visible, active, infos, ran>>
    <3>1. ErrorIsInactive'
      BY <2>2 DEF IInv, ErrorIsInactive, NoError, infos
    <3>. QED
      BY <2>1, <2>2, <3>1, <1>s, <1>0, QuietStep
  <2>3. CASE Catch(kind)
    BY <2>1, <2>3, <1>c
  <2>. QED
    BY <1>7, <2>2, <2>3 DEF StaleAnswered
<1>8. ASSUME NEW card \in Card, TimeOut(card) PROVE IInv'
  <2>1. EffectsDone /\ UNCHANGED <<url, visible, ran, live>> /\ setTimedOut
    BY <1>8 DEF TimeOut
  <2>2. /\ dashboard' \in Dashboard /\ performance' \in Performance
        /\ DashboardOf(ran.url)' /\ PerformanceOf(ran.url)' /\ active' = FALSE
    <3>1. dashboard' = SetError(dashboard) /\ performance' = SetError(performance) /\ active' = FALSE
      BY <2>1 DEF setTimedOut
    <3>. QED
      BY <3>1, <2>1, <1>t, ErrorType DEF DashboardOf, PerformanceOf
  <2>3. ran.active \/ live' = {}
    BY <2>1 DEF IInv, NothingLive
  <2>. QED
    BY <2>1, <2>2, <2>3, <1>0, QuietStep DEF ErrorIsInactive
<1>9. CASE Retry
  <2>1. EffectsDone /\ UNCHANGED <<url, visible, ran, live>> /\ resetData /\ active' = TRUE
    BY <1>9 DEF Retry
  <2>2. dashboard' \in Dashboard /\ performance' \in Performance
    BY <2>1, ResetType
  <2>3. DashboardOf(ran.url)' /\ PerformanceOf(ran.url)' /\ NoError'
    BY <2>1 DEF resetData, initialDashboardInfo, initialPerformanceInfo, DashboardOf, PerformanceOf, NoError
  <2>4. ran.active \/ live' = {}
    BY <2>1 DEF IInv, NothingLive
  <2>. QED
    BY <2>1, <2>2, <2>3, <2>4, <1>0, QuietStep DEF ErrorIsInactive
<1>10. CASE UNCHANGED vars
  BY <1>10 DEF vars, infos, IInv, TypeOK, DashboardOf, PerformanceOf, ErrorIsInactive, NoError,
               NothingLive, MountIsLoading
<1>. QED
  BY <1>1, <1>2, <1>3, <1>4, <1>5, <1>6, <1>7, <1>8, <1>9, <1>10 DEF Next

LEMMA Invariance == Spec => []IInv
BY InitInv, StepInv, PTL DEF Spec

(* The state stays of its types, and so do the dependencies the effects    *)
(* last ran with.                                                          *)
THEOREM TypeCorrect == Spec => []TypeOK
BY Invariance, PTL DEF IInv

-------------------------------------------------------------------------------
(* The stats shown are of the url that is connected, whatever late answers *)
(* come and also between two urls of one cluster.                          *)
THEOREM StatsOfTheUrl == Spec => []StatsAreOfUrl
<1>1. ASSUME IInv PROVE StatsAreOfUrl
  <2>. SUFFICES ASSUME EffectsDone
                PROVE  {dashboard.slotTime, dashboard.slot, dashboard.blockTime,
                        performance.tps, performance.count} \subseteq {None, url}
    BY DEF StatsAreOfUrl
  <2>1. ran.url = url
    BY <1>1, RanIsCurrent DEF IInv
  <2>. QED
    BY <1>1, <2>1 DEF IInv, DashboardOf, PerformanceOf
<1>. QED
  BY <1>1, Invariance, PTL

(* A page that shows an error has stopped polling: no later answer can     *)
(* turn the error into data.                                               *)
THEOREM ErrorsStop == Spec => []ErrorStopsPolling
<1>1. ASSUME IInv PROVE ErrorStopsPolling
  BY <1>1, RanIsCurrent DEF IInv, ErrorStopsPolling, ErrorIsInactive, NoError, NothingLive
<1>. QED
  BY <1>1, Invariance, PTL

-------------------------------------------------------------------------------
(* The search bar.  Options of a text have the page it stands for by       *)
(* itself, and lead to the inspector only if it is no address.             *)
Whole(text, opts, e) == \A own \in Search!Own(text, e) : \E o \in opts : <<o.page, o.of>> = own
Inspects(text, opts) == \A o \in opts : o.page = "/tx/inspector" => reading[text].bytes = NoData

Told(text, opts, e) == text \in Text /\ Whole(text, opts, e) /\ Inspects(text, opts)

(* A call in flight has found what is told of its text.                    *)
Working(q) ==
  /\ q.stage \in {"tokens", "domain"}
  /\ q = [text |-> q.text, stage |-> q.stage, cluster |-> q.cluster, epoch |-> q.epoch,
          options |-> q.options]
  /\ Told(q.text, q.options, q.epoch)

RequestOK(q) ==
  \/ q = Search!Idle
  \/ q.stage = "rejected" /\ q.text \in Text
  \/ Working(q)

CallsFindTheirs ==
  requests = [r \in Call |-> requests[r]] /\ \A r \in Call : RequestOK(requests[r])

(* What is kept is told of its text.                                       *)
CacheIsOfTexts ==
  /\ optionsCache = [t \in Text |-> optionsCache[t]]
  /\ \A t \in Text : optionsCache[t] # NoData => Told(t, optionsCache[t].options, optionsCache[t].epoch)

(* What is offered is of the text it was loaded for.                       *)
LoadedIsOfText == loaded.text # NoData => Inspects(loaded.text, loaded.options)

(* The last request is in flight; unless a kept text overtook it, it is    *)
(* for the text in the field, and the control loads.                       *)
LastIsOfField ==
  /\ isLoading => lastRequest # NoData
  /\ lastRequest # NoData =>
       /\ lastRequest \in Call /\ requests[lastRequest].stage # "idle"
       /\ ~overtaken => isLoading /\ requests[lastRequest].text = inputValue

(* The field shows what the bar does, and what it loaded.                  *)
FieldIsOfBar ==
  /\ inputValue # NoData => inputValue = search
  /\ ~isLoading /\ ~overtaken /\ inputValue # NoData /\ loaded.text # NoData =>
       loaded.text = inputValue

(* The inductive invariant of the search.                                  *)
SearchInv ==
  /\ cluster \in Cluster
  /\ CallsFindTheirs /\ CacheIsOfTexts /\ LoadedIsOfText /\ LastIsOfField /\ FieldIsOfBar
  /\ Search!ChoiceKeepsCluster

ServicesInv == part = "search" => SearchInv

(* What the tables, the number and the raw text give is told.              *)
LEMMA BuiltIsTold ==
  ASSUME NEW text \in Text, NEW c \in Cluster, NEW e
  PROVE  Told(text, Search!buildOptions(text, c, e), e)
<1> DEFINE programs == Search!buildProgramOptions(text, c)
           numbers == Search!buildNumberOptions(text, e)
           nice == programs \cup numbers
           rawOptions == Search!buildRawOptions(text)
           opts == Search!buildOptions(text, c, e)
           t == reading[text]
<1>1. opts = IF nice # {} THEN nice ELSE rawOptions
  BY DEF Search!buildOptions
<1>2. programs # {} <=> InTable(text, c)
  BY DEF Search!buildProgramOptions, InTable
<1>3. t.number => Search!Option("Block", "/block", text) \in numbers
  BY DEF Search!buildNumberOptions, Search!If
<1>4. ASSUME t.number, e # NoData, ~t.hex, t.integer <= e + 1
      PROVE  Search!Option("Epoch", "/epoch", text) \in numbers
  BY <1>4 DEF Search!buildNumberOptions, Search!If, Search!asksEpoch
<1>5. ~t.number => numbers = {}
  BY DEF Search!buildNumberOptions, Search!If, Search!asksEpoch
<1>6. /\ t.bytes = 32 => rawOptions = {Search!Option("Account", "/address", text)}
      /\ t.bytes = 64 => rawOptions = {Search!Option("Transaction", "/tx", text)}
      /\ rawOptions # {} => t.bytes = 32 \/ t.bytes = 64 \/ t.bytes = NoData
  <2>1. 32 # 64 /\ 32 # NoData /\ 64 # NoData
    BY NoDataAssumption
  <2>2. CASE t.bytes = 32
    BY <2>1, <2>2, Zenon DEF Search!buildRawOptions
  <2>3. CASE t.bytes = 64
    BY <2>1, <2>3, Zenon DEF Search!buildRawOptions
  <2>4. CASE t.bytes # 32 /\ t.bytes # 64 /\ t.bytes # NoData
    BY <2>4, Zenon DEF Search!buildRawOptions
  <2>. QED
    BY <2>1, <2>2, <2>3, <2>4, Zenon
<1>8. t.integer # NoData => t.number
  BY ReadingAssumption
<1>9. \A label, page, of : /\ Search!Option(label, page, of).page = page
                          /\ Search!Option(label, page, of).of = of
  BY DEF Search!Option
<1>10. ASSUME NEW k \in Known, k.address = text, text \in t.matches, c \in k.deployments
       PROVE  Search!Option(k.label, "/address", text) \in programs
  BY <1>10 DEF Search!buildProgramOptions
<1>11. ASSUME t.bytes = 32, nice # {}
       PROVE  \E k \in Known : k.address = text /\ text \in t.matches /\ c \in k.deployments
  BY <1>11, <1>2, <1>5, ReadingAssumption
<1>12. t.bytes = 64 => nice = {}
  BY <1>2, <1>5, ReadingAssumption
<1> HIDE DEF programs, numbers, rawOptions, opts
<1>13. ASSUME NEW own \in Search!Own(text, e)
       PROVE  \E o \in opts : <<o.page, o.of>> = own
  <2>1. CASE t.integer # NoData /\ own = <<"/block", text>>
    BY <2>1, <1>1, <1>3, <1>8, <1>9
  <2>2. CASE ~t.hex /\ t.integer # NoData /\ e # NoData /\ t.integer <= e + 1 /\ own = <<"/epoch", text>>
    BY <2>2, <1>1, <1>4, <1>8, <1>9
  <2>3. CASE t.bytes = 32 /\ own = <<"/address", text>>
    <3>1. CASE nice # {}
      BY <3>1, <2>3, <1>1, <1>9, <1>10, <1>11
    <3>2. CASE nice = {}
      BY <3>2, <2>3, <1>1, <1>6, <1>9
    <3>. QED
      BY <3>1, <3>2
  <2>4. CASE t.bytes = 64 /\ own = <<"/tx", text>>
    BY <2>4, <1>1, <1>6, <1>9, <1>12
  <2>. QED
    BY <1>13, <2>1, <2>2, <2>3, <2>4 DEF Search!Own, Search!If
<1>14. ASSUME NEW o \in opts, o.page = "/tx/inspector"
       PROVE  t.bytes = NoData
  <2>1. \A p \in programs : p.page = "/address"
    BY <1>9 DEF programs, Search!buildProgramOptions
  <2>2. \A n \in numbers : n.page \in {"/block", "/epoch"}
    BY <1>9 DEF numbers, Search!buildNumberOptions, Search!If
  <2>3. o \in rawOptions
    BY <1>14, <2>1, <2>2, <1>1
  <2>. QED
    BY <1>14, <2>3, <1>6, <1>9
<1>. QED
  BY <1>13, <1>14 DEF Told, Whole, Inspects, opts

(* More accounts leave it told.                                            *)
LEMMA MoreIsTold ==
  ASSUME NEW text, NEW opts, NEW e, NEW more, Told(text, opts, e),
         \A o \in more : o.page = "/address"
  PROVE  Told(text, opts \cup more, e)
BY DEF Told, Whole, Inspects

LEMMA TokensAreAccounts ==
  ASSUME NEW text, NEW c
  PROVE  \A o \in Search!buildTokenOptions(text, c) : o.page = "/address"
BY DEF Search!buildTokenOptions, Search!Option

LEMMA DomainsAreAccounts ==
  ASSUME NEW text
  PROVE  \A o \in Search!buildDomainOptions(text) : o.page = "/address"
<1>1. Search!Option("Domain Owner", "/address", domainOf[text]).page = "/address"
  BY DEF Search!Option
<1>2. Search!Option("Name Service Account", "/address", <<"name", text>>).page = "/address"
  BY DEF Search!Option
<1>. QED
  BY <1>1, <1>2 DEF Search!buildDomainOptions

(* A call that starts has found what is told, or is rejected.              *)
LEMMA StartedIsOK ==
  ASSUME SearchInv, NEW r \in Call, NEW text \in Text, Search!performSearch(r, text)
  PROVE  /\ CallsFindTheirs'
         /\ requests'[r].stage # "idle" /\ requests'[r].text = text
<1> DEFINE call == requests'[r]
<1>1. CallsFindTheirs /\ cluster \in Cluster
  BY DEF SearchInv
<1>2. requests' = [s \in Call |-> IF s = r THEN call ELSE requests[s]]
  BY <1>1 DEF CallsFindTheirs, Search!performSearch
<1>3. CASE Search!throws(text, Search!epoch)
  <2>1. call = [text |-> text, stage |-> "rejected"]
    BY <1>1, <1>3 DEF CallsFindTheirs, Search!performSearch
  <2>2. call.stage = "rejected" /\ call.text = text
    BY <2>1
  <2>3. RequestOK(call)
    BY <2>2 DEF RequestOK
  <2>. QED
    BY <1>1, <1>2, <2>2, <2>3 DEF CallsFindTheirs
<1>4. CASE ~Search!throws(text, Search!epoch)
  <2> DEFINE built == Search!buildOptions(text, cluster, Search!epoch)
  <2>1. call = [text |-> text, stage |-> "tokens", cluster |-> cluster, epoch |-> Search!epoch,
                options |-> built]
    BY <1>1, <1>4 DEF CallsFindTheirs, Search!performSearch
  <2>2. Told(text, built, Search!epoch)
    BY <1>1, BuiltIsTold
  <2> HIDE DEF built
  <2>3. /\ call.text = text /\ call.stage = "tokens" /\ call.cluster = cluster
        /\ call.epoch = Search!epoch /\ call.options = built
    BY <2>1
  <2>4. RequestOK(call)
    BY <2>1, <2>2, <2>3 DEF RequestOK, Working
  <2>. QED
    BY <1>1, <1>2, <2>3, <2>4 DEF CallsFindTheirs
<1>. QED
  BY <1>3, <1>4

(* A call that ends hands over what it found, if it is the last.           *)
LEMMA FinishedIsOK ==
  ASSUME SearchInv, NEW r \in Call, NEW result, Search!Finish(r, result),
         requests[r].stage # "idle", requests[r].text \in Text,
         result # NoData => Told(requests[r].text, result.options, result.epoch)
  PROVE  SearchInv'
<1> DEFINE call == requests[r]
<1> USE DEF SearchInv
<1>1. requests' = [s \in Call |-> IF s = r THEN Search!Idle ELSE requests[s]]
  BY DEF CallsFindTheirs, Search!Finish
<1>2. CallsFindTheirs'
  BY <1>1 DEF CallsFindTheirs, RequestOK
<1>3. UNCHANGED <<cluster, connected, search, inputValue, path, overtaken, inputs>>
  BY DEF Search!Finish
<1>4. Search!ChoiceKeepsCluster'
  BY <1>3 DEF Search!ChoiceKeepsCluster
<1>5. CASE r # lastRequest
  <2>1. UNCHANGED <<loaded, isLoading, passEmptyOptions, lastRequest, optionsCache>>
    BY <1>5 DEF Search!Finish
  <2>. QED
    BY <1>1, <1>2, <1>3, <1>4, <1>5, <2>1
    DEF CacheIsOfTexts, LoadedIsOfText, LastIsOfField, FieldIsOfBar
<1>6. CASE r = lastRequest
  <2>1. /\ loaded' = [text |-> call.text, options |-> IF result = NoData THEN {} ELSE result.options]
        /\ isLoading' = FALSE /\ lastRequest' = NoData
        /\ optionsCache' = IF result = NoData THEN optionsCache
                           ELSE [optionsCache EXCEPT ![call.text] = result]
    BY <1>6 DEF Search!Finish
  <2>2. loaded'.text = call.text /\ loaded'.options = (IF result = NoData THEN {} ELSE result.options)
    BY <2>1
  <2>3. LoadedIsOfText'
    BY <2>2 DEF LoadedIsOfText, Told, Inspects
  <2>4. CacheIsOfTexts'
    <3>1. CASE result = NoData
      BY <2>1, <3>1 DEF CacheIsOfTexts
    <3>2. CASE result # NoData
      <4>1. optionsCache' = [t \in Text |-> IF t = call.text THEN result ELSE optionsCache[t]]
        BY <2>1, <3>2 DEF CacheIsOfTexts
      <4>. QED
        BY <4>1, <3>2 DEF CacheIsOfTexts
    <3>. QED
      BY <3>1, <3>2
  <2>5. LastIsOfField'
    BY <2>1 DEF LastIsOfField
  <2>6. FieldIsOfBar'
    BY <1>3, <1>6, <2>2, NoDataAssumption DEF FieldIsOfBar, LastIsOfField
  <2>. QED
    BY <1>2, <1>3, <1>4, <2>3, <2>4, <2>5, <2>6
<1>. QED
  BY <1>5, <1>6

(* A control that is emptied offers nothing.                               *)
LEMMA ResetIsOK ==
  ASSUME SearchInv, Search!Reset
  PROVE  CacheIsOfTexts' /\ LoadedIsOfText' /\ LastIsOfField' /\ FieldIsOfBar'
<1>1. loaded'.text = NoData
  BY DEF Search!Reset, Search!NotLoaded
<1>. QED
  BY <1>1 DEF SearchInv, Search!Reset, CacheIsOfTexts, LoadedIsOfText, LastIsOfField, FieldIsOfBar

LEMMA SearchInvInit == Search!Init => SearchInv
<1> SUFFICES ASSUME Search!Init PROVE SearchInv
  OBVIOUS
<1>1. loaded.text = NoData
  BY DEF Search!Init, Search!NotLoaded
<1>. QED
  BY <1>1 DEF Search!Init, SearchInv, CallsFindTheirs, RequestOK, CacheIsOfTexts, LoadedIsOfText,
              LastIsOfField, FieldIsOfBar, Search!ChoiceKeepsCluster

LEMMA SearchInvNext ==
  ASSUME SearchInv, Search!Next
  PROVE  SearchInv'
<1> USE DEF SearchInv
<1>1. ASSUME NEW text \in Text, Search!Type(text) PROVE SearchInv'
  <2>1. /\ inputValue' = text /\ search' = text
        /\ UNCHANGED <<cluster, connected, optionsCache, path>>
    BY <1>1 DEF Search!Type
  <2>2. CacheIsOfTexts' /\ Search!ChoiceKeepsCluster' /\ cluster' \in Cluster
    BY <2>1 DEF CacheIsOfTexts, Search!ChoiceKeepsCluster
  <2>3. CASE optionsCache[text] # NoData
    <3>1. /\ loaded' = [text |-> text, options |-> optionsCache[text].options]
          /\ isLoading' = FALSE /\ overtaken' = (lastRequest # NoData)
          /\ UNCHANGED <<lastRequest, requests>>
      BY <1>1, <2>3 DEF Search!Type
    <3>2. loaded'.text = text /\ loaded'.options = optionsCache[text].options
      BY <3>1
    <3>3. LoadedIsOfText'
      BY <3>2, <2>3 DEF LoadedIsOfText, CacheIsOfTexts, Told
    <3>4. CallsFindTheirs'
      BY <3>1 DEF CallsFindTheirs
    <3>5. LastIsOfField' /\ FieldIsOfBar'
      BY <2>1, <3>1, <3>2 DEF LastIsOfField, FieldIsOfBar
    <3>. QED
      BY <2>2, <3>3, <3>4, <3>5
  <2>4. CASE optionsCache[text] = NoData
    <3>1. /\ isLoading' = TRUE /\ overtaken' = FALSE /\ UNCHANGED loaded
          /\ \E r \in Call :
               requests[r] = Search!Idle /\ lastRequest' = r /\ Search!performSearch(r, text)
      BY <1>1, <2>4 DEF Search!Type
    <3>2. PICK r \in Call : lastRequest' = r /\ Search!performSearch(r, text)
      BY <3>1
    <3>3. CallsFindTheirs' /\ requests'[r].stage # "idle" /\ requests'[r].text = text
      BY <3>2, StartedIsOK
    <3>4. LoadedIsOfText'
      BY <3>1 DEF LoadedIsOfText
    <3>5. LastIsOfField' /\ FieldIsOfBar'
      BY <2>1, <3>1, <3>2, <3>3, NoDataAssumption DEF LastIsOfField, FieldIsOfBar
    <3>. QED
      BY <2>2, <3>3, <3>4, <3>5
  <2>. QED
    BY <2>3, <2>4
<1>2. ASSUME Search!Clear \/ Search!Blur PROVE SearchInv'
  <2>1. Search!Reset /\ UNCHANGED <<cluster, connected, requests, path>>
    BY <1>2 DEF Search!Clear, Search!Blur
  <2>2. CallsFindTheirs' /\ Search!ChoiceKeepsCluster'
    BY <2>1 DEF CallsFindTheirs, Search!ChoiceKeepsCluster
  <2>. QED
    BY <2>1, <2>2, ResetIsOK
<1>3. ASSUME NEW option \in Search!options, Search!Choose(option) PROVE SearchInv'
  <2>1. Search!Reset /\ UNCHANGED <<cluster, connected, requests>>
    BY <1>3 DEF Search!Choose
  <2>2. path' = [option |-> option, of |-> loaded.text, from |-> cluster,
                 cluster |-> IF option.page = "/tx/inspector" THEN NoData ELSE cluster]
    BY <1>3 DEF Search!Choose
  <2>3. /\ path'.option = option /\ path'.of = loaded.text /\ path'.from = cluster
        /\ path'.cluster = IF option.page = "/tx/inspector" THEN NoData ELSE cluster
    BY <2>2
  <2>4. Inspects(loaded.text, loaded.options) /\ option \in loaded.options
    BY <1>3 DEF Search!options, LoadedIsOfText
  <2>5. Search!ChoiceKeepsCluster'
    BY <2>3, <2>4 DEF Search!ChoiceKeepsCluster, Inspects
  <2>6. CallsFindTheirs'
    BY <2>1 DEF CallsFindTheirs
  <2>. QED
    BY <2>1, <2>5, <2>6, ResetIsOK
<1>4. ASSUME (\E c \in Cluster : Search!Switch(c)) \/ Search!Connect PROVE SearchInv'
  <2>1. /\ cluster' \in Cluster
        /\ UNCHANGED <<search, inputValue, loaded, isLoading, lastRequest, optionsCache,
                       requests, path, overtaken>>
    BY <1>4 DEF Search!Switch, Search!Connect, Search!select
  <2>. QED
    BY <2>1 DEF CallsFindTheirs, CacheIsOfTexts, LoadedIsOfText, LastIsOfField, FieldIsOfBar,
                Search!ChoiceKeepsCluster
<1>5. ASSUME NEW r \in Call, Search!AnswerTokens(r) PROVE SearchInv'
  <2> DEFINE call == requests[r]
  <2>1. call.stage = "tokens"
    BY <1>5 DEF Search!AnswerTokens
  <2>2. Working(call)
    BY <2>1 DEF CallsFindTheirs, RequestOK, Search!Idle
  <2>3. PICK found \in {{}, Search!buildTokenOptions(call.text, call.cluster)} :
          IF Search!asksDomain(call)
            THEN /\ requests' = [requests EXCEPT ![r].stage = "domain",
                                                 ![r].options = call.options \cup found]
                 /\ UNCHANGED <<cluster, connected, search, Search!select, path, overtaken, inputs>>
            ELSE Search!Finish(r, Search!Result(call, call.options \cup found))
    BY <1>5 DEF Search!AnswerTokens
  <2> DEFINE all == call.options \cup found
  <2>4. Told(call.text, all, call.epoch)
    <3>1. \A o \in found : o.page = "/address"
      BY TokensAreAccounts
    <3>. QED
      BY <2>2, <3>1, MoreIsTold DEF Working
  <2>5. CASE Search!asksDomain(call)
    <3>1. /\ requests' = [requests EXCEPT ![r].stage = "domain", ![r].options = all]
          /\ UNCHANGED <<cluster, connected, search, Search!select, path, overtaken, inputs>>
      BY <2>3, <2>5
    <3> DEFINE next == [text |-> call.text, stage |-> "domain", cluster |-> call.cluster,
                        epoch |-> call.epoch, options |-> all]
    <3>2. [[call EXCEPT !.stage = "domain"] EXCEPT !.options = all] = next
      <4>1. \E t, s, c, e, o :
              call = [text |-> t, stage |-> s, cluster |-> c, epoch |-> e, options |-> o]
        BY <2>2 DEF Working
      <4>2. PICK t, s, c, e, o :
              call = [text |-> t, stage |-> s, cluster |-> c, epoch |-> e, options |-> o]
        BY <4>1
      <4>3. call.text = t /\ call.cluster = c /\ call.epoch = e
        BY <4>2
      <4> HIDE DEF call, all
      <4> DEFINE asked == [call EXCEPT !.stage = "domain"]
      <4>4. asked = [text |-> t, stage |-> "domain", cluster |-> c, epoch |-> e, options |-> o]
        BY <4>2
      <4> HIDE DEF asked
      <4>5. [asked EXCEPT !.options = all] =
              [text |-> t, stage |-> "domain", cluster |-> c, epoch |-> e, options |-> all]
        BY <4>4
      <4>. QED
        BY <4>3, <4>5 DEF asked
    <3>3. requests' = [s \in Call |-> IF s = r THEN next ELSE requests[s]]
      BY <3>1, <3>2 DEF CallsFindTheirs
    <3>4. next.text = call.text /\ next.stage = "domain" /\ RequestOK(next)
      BY <2>4 DEF RequestOK, Working
    <3> HIDE DEF next
    <3>5. CallsFindTheirs'
      BY <3>3, <3>4 DEF CallsFindTheirs
    <3>6. LastIsOfField'
      BY <3>1, <3>3, <3>4 DEF LastIsOfField, Search!select
    <3>. QED
      BY <3>1, <3>5, <3>6 DEF CacheIsOfTexts, LoadedIsOfText, FieldIsOfBar,
                              Search!ChoiceKeepsCluster, Search!select
  <2>6. CASE ~Search!asksDomain(call)
    <3> DEFINE result == Search!Result(call, all)
    <3>1. Search!Finish(r, result)
      BY <2>3, <2>6
    <3>2. result.options = all /\ result.epoch = call.epoch
      BY DEF Search!Result
    <3> HIDE DEF result, all
    <3>. QED
      BY <2>1, <2>2, <2>4, <3>1, <3>2, FinishedIsOK DEF Working, Told
  <2>. QED
    BY <2>5, <2>6
<1>6. ASSUME NEW r \in Call, Search!AnswerDomain(r) PROVE SearchInv'
  <2> DEFINE call == requests[r]
             all == call.options \cup Search!buildDomainOptions(call.text)
             result == Search!Result(call, all)
  <2>1. call.stage = "domain" /\ (Search!Finish(r, result) \/ Search!Finish(r, NoData))
    BY <1>6 DEF Search!AnswerDomain
  <2>2. Working(call)
    BY <2>1 DEF CallsFindTheirs, RequestOK, Search!Idle
  <2>3. Told(call.text, all, call.epoch)
    BY <2>2, DomainsAreAccounts, MoreIsTold DEF Working
  <2>4. result.options = all /\ result.epoch = call.epoch
    BY DEF Search!Result
  <2> HIDE DEF result, all
  <2>. QED
    BY <2>1, <2>2, <2>3, <2>4, FinishedIsOK DEF Working, Told
<1>7. ASSUME NEW r \in Call, Search!Reject(r) PROVE SearchInv'
  <2>1. requests[r].stage = "rejected" /\ Search!Finish(r, NoData)
    BY <1>7 DEF Search!Reject
  <2>2. requests[r].text \in Text
    BY <2>1 DEF CallsFindTheirs, RequestOK, Search!Idle, Working
  <2>. QED
    BY <2>1, <2>2, FinishedIsOK
<1>. QED
  BY <1>1, <1>2, <1>3, <1>4, <1>5, <1>6, <1>7 DEF Search!Next, Search!Answer

LEMMA SearchInvTells ==
  ASSUME SearchInv
  PROVE  Search!SearchIsTold
<1>1. Search!KeptIsWhole
  BY DEF SearchInv, CacheIsOfTexts, Told, Whole, Search!KeptIsWhole
<1>2. Search!OptionsAreOfText
  BY DEF SearchInv, LastIsOfField, FieldIsOfBar, Search!OptionsAreOfText, Search!options, Search!Idle
<1>. QED
  BY <1>1, <1>2 DEF SearchInv, Search!SearchIsTold

(* The step of the search, when the others are at rest.                    *)
LEMMA ServicesInvNext ==
  ASSUME ServicesInv, [ServicesNext]_<<part, vars, tokenState, searchState>>
  PROVE  ServicesInv'
<1> SUFFICES ASSUME part' = "search" PROVE SearchInv'
  BY DEF ServicesInv
<1>1. CASE part = "search" /\ Search!Next
  BY <1>1, SearchInvNext DEF ServicesInv
<1>2. CASE UNCHANGED searchState /\ UNCHANGED part
  BY <1>2 DEF ServicesInv, searchState, SearchInv, CallsFindTheirs, CacheIsOfTexts, LoadedIsOfText,
              LastIsOfField, FieldIsOfBar, Search!ChoiceKeepsCluster
<1>. QED
  BY <1>1, <1>2 DEF ServicesNext

(* What is kept of a text has the page it stands for; what is offered is   *)
(* of the text in the field; a choice keeps its cluster: whatever is typed,*)
(* left, chosen, switched and answered, in any order.                      *)
THEOREM SearchIsAlwaysTold == ServicesSpec => []SearchIsTold
<1>1. ServicesInit => ServicesInv
  BY SearchInvInit DEF ServicesInit, ServicesInv
<1>2. ServicesInv /\ [ServicesNext]_<<part, vars, tokenState, searchState>> => ServicesInv'
  BY ServicesInvNext
<1>3. ServicesInv => SearchIsTold
  BY SearchInvTells DEF ServicesInv, SearchIsTold
<1>. QED
  BY <1>1, <1>2, <1>3, PTL DEF ServicesSpec

-------------------------------------------------------------------------------
(* The cards of a token.                                                   *)

(* The account on display is of a mint whose price the service tells.                 *)
HasPrice ==
  Token!Mounted /\ Token!Section(account) = "mint" /\ tokenCluster = "MainnetBeta" /\ Token!coinId \notin {NoData, "solana"}

PriceCall(c) == c = [effect |-> c.effect, stage |-> c.stage, at |-> c.at]
PriceCalls == calls = [r \in Request |-> calls[r]] /\ \A r \in Request : PriceCall(calls[r])

AtRest == effect = 0 /\ coinInfo = Token!Nothing /\ \A r \in Request : calls[r] = Token!Idle

(* The inductive invariant of the price: cards that are not mounted keep   *)
(* nothing, and whatever asks for a price, or was told one, is of a mint   *)
(* that has one.                                                           *)
PriceInv ==
  /\ acts \in Nat /\ PriceCalls
  /\ ~Token!Mounted => AtRest
  /\ effect # 0 => HasPrice /\ isTabVisible
  /\ coinInfo # Token!Nothing => HasPrice
  /\ \A r \in Request : calls[r] # Token!Idle => HasPrice
  /\ coinInfo.status = "loading" /\ isTabVisible =>
       \E r \in Request : calls[r] # Token!Idle /\ calls[r].effect = effect

TokenInv == part = "token" => PriceInv

(* The effect runs anew, with or without a price to ask for: whatever was  *)
(* kept and asked before it still is of a mint that has one.               *)
LEMMA RunEffectIsOK ==
  ASSUME Token!RunEffect, PriceCalls, acts' \in Nat, ~Token!Mounted' => AtRest',
         coinInfo # Token!Nothing => HasPrice', \A r \in Request : calls[r] # Token!Idle => HasPrice',
         HasPrice' => Token!Mounted'
  PROVE  PriceInv'
<1> DEFINE run == acts' + 1
<1>1. Token!asksForPrices' <=> HasPrice' /\ isTabVisible'
  BY DEF Token!asksForPrices, HasPrice
<1>2. CASE Token!asksForPrices'
  <2>1. effect' = run /\ Token!getCoinInfo(run, FALSE)
    BY <1>2 DEF Token!RunEffect
  <2> DEFINE call == [effect |-> run, stage |-> "asked", at |-> acts']
  <2>2. PICK r \in Request : calls[r] = Token!Idle /\ calls' = [calls EXCEPT ![r] = call]
    BY <2>1 DEF Token!getCoinInfo
  <2>3. calls' = [s \in Request |-> IF s = r THEN call ELSE calls[s]]
    BY <2>2 DEF PriceCalls
  <2>4. call.effect = run /\ call # Token!Idle /\ PriceCall(call)
    BY DEF Token!Idle, PriceCall
  <2> HIDE DEF call
  <2>5. PriceCalls' /\ calls'[r] = call
    BY <2>3, <2>4 DEF PriceCalls
  <2>. QED
    BY <1>1, <1>2, <2>1, <2>4, <2>5 DEF PriceInv
<1>3. CASE ~Token!asksForPrices'
  <2>1. effect' = 0 /\ UNCHANGED <<calls, coinInfo>>
    BY <1>3 DEF Token!RunEffect
  <2>2. coinInfo # Token!Nothing => ~isTabVisible'
    BY <1>1, <1>3
  <2>3. coinInfo.status = "loading" => coinInfo # Token!Nothing
    BY DEF Token!Nothing
  <2>. QED
    BY <2>1, <2>2, <2>3 DEF PriceInv, PriceCalls, AtRest
<1>. QED
  BY <1>2, <1>3

(* The cards are left, and what they kept is gone.                         *)
LEMMA UnmountIsOK ==
  ASSUME Token!Unmount, acts' \in Nat
  PROVE  PriceInv'
<1>1. AtRest' /\ calls' = [r \in Request |-> Token!Idle]
  BY DEF Token!Unmount, AtRest
<1>2. PriceCalls'
  BY <1>1 DEF PriceCalls, PriceCall, Token!Idle
<1>. QED
  BY <1>1, <1>2 DEF PriceInv, AtRest, Token!Nothing

(* The cards are mounted if the information is there.                      *)
LEMMA MountIsOK ==
  ASSUME PriceInv, ~Token!Mounted, Token!MountIfLoaded, acts' = acts
  PROVE  PriceInv'
<1>1. AtRest /\ acts' \in Nat /\ PriceCalls
  BY DEF PriceInv
<1>2. CASE Token!Mounted'
  BY <1>1, <1>2, RunEffectIsOK DEF Token!MountIfLoaded, Token!Mount, AtRest
<1>3. CASE ~Token!Mounted'
  <2>1. UNCHANGED <<effect, coinInfo, calls>>
    BY <1>3 DEF Token!MountIfLoaded
  <2>. QED
    BY <1>1, <2>1 DEF PriceInv, PriceCalls, AtRest, Token!Nothing
<1>. QED
  BY <1>2, <1>3

(* Nothing the price depends on changes.                                   *)
LEMMA StillIsOK ==
  ASSUME PriceInv, acts' \in Nat,
         UNCHANGED <<tokenCluster, account, fetched, fullInfo, isTabVisible, effect, coinInfo, calls>>
  PROVE  PriceInv'
BY DEF PriceInv, PriceCalls, AtRest, HasPrice, Token!Mounted, Token!coinId, Token!link, Token!tokenInfo

(* The effect in force and the mint on display stay; the calls change.     *)
LEMMA MintStays ==
  ASSUME UNCHANGED <<tokenCluster, account, fetched, fullInfo>>
  PROVE  (HasPrice' <=> HasPrice) /\ (Token!Mounted' <=> Token!Mounted)
BY DEF HasPrice, Token!Mounted, Token!coinId, Token!link, Token!tokenInfo

LEMMA PriceInvNext ==
  ASSUME PriceInv, Token!Next
  PROVE  PriceInv'
<1> USE DEF Token!services
<1>1. CASE Token!Fetch
  BY <1>1, MountIsOK DEF Token!Fetch, Token!Mounted
<1>2. CASE Token!AnswerFullInfo
  BY <1>2, MountIsOK DEF Token!AnswerFullInfo, Token!Mounted
<1>3. CASE Token!RetryFullInfo \/ Token!Refresh
  BY <1>3, UnmountIsOK DEF Token!RetryFullInfo, Token!Refresh, Token!Act, PriceInv
<1>4. CASE Token!AnswerMintInfo \/ Token!RetryMintInfo
  BY <1>4, StillIsOK DEF Token!AnswerMintInfo, Token!RetryMintInfo, PriceInv
<1>5. ASSUME NEW kind, Token!Click(kind) \/ Token!ToggleRaw(kind) PROVE PriceInv'
  BY <1>5, StillIsOK DEF Token!Click, Token!ToggleRaw, Token!ofAccordion, Token!Act, PriceInv
<1>6. ASSUME NEW seen, Token!SetVisible(seen) PROVE PriceInv'
  <2>1. /\ UNCHANGED <<tokenCluster, account, fetched, fullInfo>>
        /\ acts' \in Nat /\ Token!RunEffect /\ (~Token!Mounted => AtRest)
    BY <1>6 DEF Token!SetVisible, Token!Act, PriceInv
  <2>2. ~Token!Mounted' => AtRest'
    BY <2>1, MintStays DEF Token!RunEffect, Token!asksForPrices, AtRest
  <2>3. HasPrice' => Token!Mounted'
    BY DEF HasPrice
  <2>. QED
    BY <2>1, <2>2, <2>3, MintStays, RunEffectIsOK DEF PriceInv
<1>7. CASE Token!Tick
  <2>1. /\ UNCHANGED <<tokenCluster, account, fetched, fullInfo, isTabVisible, effect, coinInfo>>
        /\ acts' \in Nat /\ effect # 0 /\ HasPrice /\ Token!Mounted
    BY <1>7 DEF Token!Tick, Token!Act, Token!getCoinInfo, PriceInv, HasPrice
  <2> DEFINE call == [effect |-> effect, stage |-> "asked", at |-> acts']
  <2>2. PICK r \in Request : calls[r] = Token!Idle /\ calls' = [calls EXCEPT ![r] = call]
    BY <1>7 DEF Token!Tick, Token!getCoinInfo
  <2>3. calls' = [s \in Request |-> IF s = r THEN call ELSE calls[s]]
    BY <2>2 DEF PriceInv, PriceCalls
  <2>4. call.effect = effect /\ call # Token!Idle /\ PriceCall(call)
    BY DEF Token!Idle, PriceCall
  <2> HIDE DEF call
  <2>5. PriceCalls' /\ calls'[r] = call
    BY <2>3, <2>4 DEF PriceInv, PriceCalls
  <2>. QED
    BY <2>1, <2>4, <2>5, MintStays DEF PriceInv
<1>8. ASSUME NEW r \in Request, Token!Respond(r) PROVE PriceInv'
  <2> DEFINE call == IF calls[r].effect # effect THEN Token!Idle
                     ELSE [calls[r] EXCEPT !.stage = "reading"]
  <2>1. /\ UNCHANGED <<tokenCluster, account, fetched, fullInfo, isTabVisible, effect, coinInfo, acts>>
        /\ calls[r].stage = "asked" /\ calls' = [calls EXCEPT ![r] = call]
    BY <1>8 DEF Token!Respond, Token!ofPage
  <2>2. calls[r] # Token!Idle /\ HasPrice /\ Token!Mounted
    BY <2>1 DEF Token!Idle, PriceInv, HasPrice
  <2>3. calls' = [s \in Request |-> IF s = r THEN call ELSE calls[s]]
    BY <2>1 DEF PriceInv, PriceCalls
  <2>4. PriceCall(call) /\ (calls[r].effect = effect => call # Token!Idle /\ call.effect = effect)
    BY DEF PriceInv, PriceCalls, PriceCall, Token!Idle
  <2> HIDE DEF call
  <2>5. PriceCalls' /\ calls'[r] = call
    BY <2>3, <2>4 DEF PriceInv, PriceCalls
  <2>. QED
    BY <2>1, <2>2, <2>3, <2>4, <2>5, MintStays DEF PriceInv
<1>9. ASSUME NEW r \in Request, Token!ReadPrice(r) \/ Token!FailPrice(r) PROVE PriceInv'
  <2>1. /\ UNCHANGED <<tokenCluster, account, fetched, fullInfo, isTabVisible, effect, acts>>
        /\ coinInfo'.status # "loading" /\ calls' = [calls EXCEPT ![r] = Token!Idle]
    BY <1>9 DEF Token!ReadPrice, Token!FailPrice, Token!ofPage
  <2>2. calls[r] # Token!Idle /\ HasPrice /\ Token!Mounted
    BY <1>9 DEF Token!ReadPrice, Token!FailPrice, Token!Idle, PriceInv, HasPrice
  <2>3. calls' = [s \in Request |-> IF s = r THEN Token!Idle ELSE calls[s]]
    BY <2>1 DEF PriceInv, PriceCalls
  <2>4. PriceCalls'
    BY <2>3 DEF PriceInv, PriceCalls, PriceCall, Token!Idle
  <2>. QED
    BY <2>1, <2>2, <2>4, MintStays DEF PriceInv
<1>. QED
  BY <1>1, <1>2, <1>3, <1>4, <1>5, <1>6, <1>7, <1>8, <1>9 DEF Token!Next, Token!Answering

LEMMA PriceInvInit == Token!Init => PriceInv
<1> SUFFICES ASSUME Token!Init PROVE PriceInv
  OBVIOUS
<1>1. AtRest /\ acts \in Nat /\ calls = [r \in Request |-> Token!Idle]
  BY DEF Token!Init, AtRest
<1>2. PriceCalls
  BY <1>1 DEF PriceCalls, PriceCall, Token!Idle
<1>. QED
  BY <1>1, <1>2 DEF PriceInv, AtRest, Token!Nothing

LEMMA PriceInvTells ==
  ASSUME PriceInv
  PROVE  Token!PriceIsTold
BY DEF PriceInv, HasPrice, Token!PriceIsTold

LEMMA HeaderTells == Token!HeaderIsTold
<1> DEFINE shown == Token!HeaderShows
           own == json # NoData /\ Token!Field(Token!first(account, "metadataPointer").state, "metadataAddress") = Address
           vouched == Token!tokenInfo # NoData /\ Token!tokenInfo.verified
           Good(h) == /\ h.kind = "token" /\ h.name # NoData /\ ~h.warns => vouched \/ (own /\ h.name = json)
                      /\ h.kind = "nft" /\ h.verifiedCollection => account.nftData.collection.verified
<1>1. Good(Token!defaultCard)
  BY DEF Token!defaultCard, Token!TokenMintHeaderCard
<1>2. Good(Token!Token22MintHeader(account))
  BY <1>1 DEF Token!Token22MintHeader, Token!TokenMintHeaderCard, Token!pointsAtItself
<1>3. Good(Token!TokenMintHeader(account))
  BY <1>1, <1>2 DEF Token!TokenMintHeader, Token!TokenMintHeaderCard
<1>4. Good(Token!MetaplexNFTHeader(account))
  BY DEF Token!MetaplexNFTHeader
<1>5. Good([kind |-> "account"])
  OBVIOUS
<1>6. Good(shown)
  <2> HIDE DEF Good
  <2>. QED
    BY <1>3, <1>4, <1>5 DEF Token!HeaderShows
<1>. QED
  BY <1>6 DEF Token!HeaderIsTold

(* The step of the cards, when the others are at rest.                     *)
LEMMA TokenInvNext ==
  ASSUME TokenInv, [ServicesNext]_<<part, vars, tokenState, searchState>>
  PROVE  TokenInv'
<1> SUFFICES ASSUME part' = "token" PROVE PriceInv'
  BY DEF TokenInv
<1>1. CASE part = "token" /\ Token!Next
  BY <1>1, PriceInvNext DEF TokenInv
<1>2. CASE UNCHANGED tokenState /\ UNCHANGED part
  BY <1>2, StillIsOK DEF TokenInv, tokenState, PriceInv
<1>. QED
  BY <1>1, <1>2 DEF ServicesNext

(* A name without a warning is vouched for; while the price of a mint is   *)
(* said to be loaded a request of the effect in force is on its way; and a *)
(* price is of a mint that has one: however the tab is hidden and shown,   *)
(* the account is fetched again and stale requests come late.              *)
HeaderAndPriceAreTold == part = "token" => Token!HeaderIsTold /\ Token!PriceIsTold

THEOREM HeaderAndPriceAreAlwaysTold == ServicesSpec => []HeaderAndPriceAreTold
<1>1. ServicesInit => TokenInv
  BY PriceInvInit DEF ServicesInit, TokenInv
<1>2. TokenInv /\ [ServicesNext]_<<part, vars, tokenState, searchState>> => TokenInv'
  BY TokenInvNext
<1>3. TokenInv => HeaderAndPriceAreTold
  BY PriceInvTells, HeaderTells DEF TokenInv, HeaderAndPriceAreTold
<1>. QED
  BY <1>1, <1>2, <1>3, PTL DEF ServicesSpec

=============================================================================
