------------------------------- MODULE SearchBar -------------------------------
(***************************************************************************)
(* The search bar (components/SearchBar.tsx, utils/token-search.ts): what  *)
(* is typed is looked up in tables of the explorer, in a token list and    *)
(* among domains, and what is found leads to a page.                       *)
(*                                                                         *)
(* The control is AsyncSelect of react-select with cacheOptions: it keeps  *)
(* the options of every text it has loaded, drops an answer that is not of *)
(* its last request, and while it loads goes on to offer the options it    *)
(* had.  Leaving the field empties the control but not the text that the   *)
(* bar shows.                                                              *)
(*                                                                         *)
(* A text is a model value; what it can be read as is                      *)
(*   [number, integer, hex, bytes, domain, message, matches]               *)
(***************************************************************************)
EXTENDS Integers, FiniteSets

CONSTANTS
  NoData,
  Text, reading,   \* the texts that may be typed, and how they read
  Known,           \* the tables: [label, address, deployments]
  Cluster,
  epochOf,         \* the current epoch, by cluster
  tokensOf,        \* the tokens the list finds, by text and cluster
  domainOf,        \* the owners of domains, by text; NoData for none
  Call,            \* names of requests
  MaxInputs        \* bound on what the user does

VARIABLES
  cluster, connected,
  search,          \* state of SearchBar; NoData stands for the empty text
  inputValue, loaded, isLoading, passEmptyOptions, lastRequest, optionsCache,
                   \* state of AsyncSelect; loaded is [text, options]
  requests,        \* calls of performSearch in flight
  path,            \* the page the last choice led to
  overtaken,       \* (history) a cached text overtook the last request
  inputs

searchVars == <<cluster, connected, search, inputValue, loaded, isLoading, passEmptyOptions,
                lastRequest, optionsCache, requests, path, overtaken, inputs>>
select == <<inputValue, loaded, isLoading, passEmptyOptions, lastRequest, optionsCache>>

-------------------------------------------------------------------------------
(* What is found *)

If(condition, found) == IF condition THEN found ELSE {}

Option(label, page, of) == [label |-> label, page |-> page, of |-> of]

(* The tables: a program is looked for where it is deployed.               *)
buildProgramOptions(text, c) ==
  {Option(k.label, "/address", k.address) :
   k \in {k \in Known : k.address \in reading[text].matches /\ c \in k.deployments}}

(* A text that reads as a number is a slot, and an epoch if it has begun   *)
(* or is the next one; a fraction cannot be compared with the epoch.       *)
asksEpoch(text, epoch) == reading[text].number /\ epoch # NoData /\ ~reading[text].hex
throws(text, epoch) == asksEpoch(text, epoch) /\ reading[text].integer = NoData

buildNumberOptions(text, epoch) ==
  If(reading[text].number, {Option("Block", "/block", text)})
  \cup If(asksEpoch(text, epoch) /\ reading[text].integer <= epoch + 1,
            {Option("Epoch", "/epoch", text)})

(* Only a text nothing else was found for is read as base58, and as base64 *)
(* if it is not base58.                                                    *)
buildRawOptions(text) ==
  CASE reading[text].bytes = 32 -> {Option("Account", "/address", text)}
    [] reading[text].bytes = 64 -> {Option("Transaction", "/tx", text)}
    [] reading[text].bytes = NoData /\ reading[text].message # NoData ->
         {Option("Transaction Inspector", "/tx/inspector", reading[text].message)}
    [] OTHER -> {}

(* Mutant: a number is not also looked up as it stands.                    *)
buildOptionsNiceOnly(text, c, epoch) ==
  LET tables == buildProgramOptions(text, c)
  IN  IF tables # {} THEN tables
      ELSE IF reading[text].number THEN buildNumberOptions(text, epoch) ELSE buildRawOptions(text)

buildOptions(text, c, epoch) ==
  LET nice == buildProgramOptions(text, c) \cup buildNumberOptions(text, epoch)
  IN  IF nice # {} THEN nice ELSE buildRawOptions(text)

buildTokenOptions(text, c) == {Option("Tokens", "/address", t) : t \in tokensOf[text][c]}

buildDomainOptions(text) ==
  IF domainOf[text] = NoData THEN {}
  ELSE {Option("Domain Owner", "/address", domainOf[text]),
        Option("Name Service Account", "/address", <<"name", text>>)}

asksDomain(call) == reading[call.text].domain /\ call.cluster = "MainnetBeta"

-------------------------------------------------------------------------------
NotLoaded == [text |-> NoData, options |-> {}]
Idle == [text |-> NoData, stage |-> "idle"]
epoch == IF connected THEN epochOf[cluster] ELSE NoData

Init ==
  /\ cluster \in Cluster /\ connected = TRUE
  /\ search = NoData /\ inputValue = NoData /\ loaded = NotLoaded
  /\ isLoading = FALSE /\ passEmptyOptions = FALSE /\ lastRequest = NoData
  /\ optionsCache = [t \in Text |-> NoData]
  /\ requests = [r \in Call |-> Idle]
  /\ path = NoData /\ overtaken = FALSE /\ inputs = 0

Input == inputs < MaxInputs /\ inputs' = inputs + 1

(* The options the control offers; those it starts with are none.          *)
options ==
  IF ~passEmptyOptions /\ inputValue # NoData /\ loaded.text # NoData THEN loaded.options ELSE {}

(* onInputChange of AsyncSelect, with no text.                             *)
Reset ==
  /\ inputValue' = NoData /\ loaded' = NotLoaded
  /\ isLoading' = FALSE /\ passEmptyOptions' = FALSE /\ lastRequest' = NoData
  /\ overtaken' = FALSE
  /\ UNCHANGED optionsCache

(* performSearch: the tables first; if that throws, the call is rejected.  *)
performSearch(r, text) ==
  requests' = [requests EXCEPT ![r] =
    IF throws(text, epoch) THEN [text |-> text, stage |-> "rejected"]
    ELSE [text |-> text, stage |-> "tokens", cluster |-> cluster, epoch |-> epoch,
          options |-> buildOptions(text, cluster, epoch)]]

(* A text is typed: its options are there, or are asked for.               *)
Type(text) ==
  /\ text # search /\ Input
  /\ search' = text
  /\ inputValue' = text
  /\ IF optionsCache[text] # NoData
       THEN /\ loaded' = [text |-> text, options |-> optionsCache[text].options]
            /\ isLoading' = FALSE /\ passEmptyOptions' = FALSE
            /\ overtaken' = (lastRequest # NoData)
            /\ UNCHANGED <<lastRequest, requests>>
       ELSE /\ isLoading' = TRUE /\ passEmptyOptions' = (loaded.text = NoData)
            /\ \E r \in Call :
                 requests[r] = Idle /\ lastRequest' = r /\ performSearch(r, text)
            /\ overtaken' = FALSE
            /\ UNCHANGED loaded
  /\ UNCHANGED <<cluster, connected, optionsCache, path>>

(* The text is deleted, or cleared by the button, which leaves the field.  *)
Clear ==
  /\ search # NoData /\ Input
  /\ search' = NoData /\ Reset
  /\ UNCHANGED <<cluster, connected, requests, path>>

(* The field is left: SearchBar ignores that its control was emptied.      *)
Blur ==
  /\ inputValue # NoData /\ Input
  /\ Reset
  /\ UNCHANGED <<cluster, connected, search, requests, path>>

(* onChange: the query of the page is kept by a path that has none itself. *)
Choose(option) ==
  /\ option \in options /\ Input
  /\ path' = [option |-> option, of |-> loaded.text, from |-> cluster,
              cluster |-> IF option.page = "/tx/inspector" THEN NoData ELSE cluster]
  /\ search' = NoData /\ Reset
  /\ UNCHANGED <<cluster, connected, requests>>

(* The cluster of the page changes and is connected to.                    *)
Switch(c) ==
  /\ c # cluster /\ Input
  /\ cluster' = c /\ connected' = FALSE
  /\ UNCHANGED <<search, select, requests, path, overtaken>>

Connect ==
  /\ ~connected
  /\ connected' = TRUE
  /\ UNCHANGED <<cluster, search, select, requests, path, overtaken, inputs>>

-------------------------------------------------------------------------------
(* The callback of loadOptions: what is not of the last request is dropped;*)
(* of a call that was rejected there are no options, and none are kept.    *)
Finish(r, result) ==
  LET call == requests[r]
  IN  /\ requests' = [requests EXCEPT ![r] = Idle]
      /\ IF r # lastRequest
           THEN UNCHANGED <<loaded, isLoading, passEmptyOptions, lastRequest, optionsCache>>
           ELSE /\ loaded' = [text |-> call.text, options |-> IF result = NoData THEN {} ELSE result.options]
                /\ isLoading' = FALSE /\ passEmptyOptions' = FALSE /\ lastRequest' = NoData
                /\ optionsCache' = IF result = NoData THEN optionsCache
                                   ELSE [optionsCache EXCEPT ![call.text] = result]
      /\ UNCHANGED <<cluster, connected, search, inputValue, path, overtaken, inputs>>

Result(call, found) == [options |-> found, cluster |-> call.cluster, epoch |-> call.epoch]

(* searchTokens: a list that fails, or is silent for five seconds, has     *)
(* found nothing.                                                          *)
AnswerTokens(r) ==
  /\ requests[r].stage = "tokens"
  /\ \E found \in {{}, buildTokenOptions(requests[r].text, requests[r].cluster)} :
       LET all == requests[r].options \cup found
       IN  IF asksDomain(requests[r])
             THEN /\ requests' = [requests EXCEPT ![r].stage = "domain", ![r].options = all]
                  /\ UNCHANGED <<cluster, connected, search, select, path, overtaken, inputs>>
             ELSE Finish(r, Result(requests[r], all))

(* buildDomainOptions: a failure rejects all of the search.                *)
AnswerDomain(r) ==
  /\ requests[r].stage = "domain"
  /\ \/ Finish(r, Result(requests[r], requests[r].options \cup buildDomainOptions(requests[r].text)))
     \/ Finish(r, NoData)

Reject(r) == requests[r].stage = "rejected" /\ Finish(r, NoData)

Answer(r) == AnswerTokens(r) \/ AnswerDomain(r) \/ Reject(r)

Next ==
  \/ \E text \in Text : Type(text)
  \/ Clear \/ Blur
  \/ \E option \in options : Choose(option)
  \/ \E c \in Cluster : Switch(c)
  \/ Connect
  \/ \E r \in Call : Answer(r)

Spec == Init /\ [][Next]_searchVars

(* A list that is silent is given up, and a domain is answered.            *)
Fairness == \A r \in Call : WF_searchVars(Answer(r))

-------------------------------------------------------------------------------
(* The page a text stands for by itself.                                   *)
Own(text, e) ==
  LET t == reading[text]
  IN  If(t.integer # NoData, {<<"/block", text>>})
      \cup If(~t.hex /\ t.integer # NoData /\ e # NoData /\ t.integer <= e + 1, {<<"/epoch", text>>})
      \cup If(t.bytes = 32, {<<"/address", text>>})
      \cup If(t.bytes = 64, {<<"/tx", text>>})

(* What is kept for a text has the page it stands for by itself: its slot, *)
(* its epoch, its account or its transaction, whatever else was found and  *)
(* whether or not the token list answered.                                 *)
KeptIsWhole ==
  \A text \in Text : optionsCache[text] # NoData =>
    \A own \in Own(text, optionsCache[text].epoch) :
      \E o \in optionsCache[text].options : <<o.page, o.of>> = own

(* Options are of the text in the field once nothing loads, unless a text  *)
(* that was kept overtook the last request (the control then shows what    *)
(* that request finds, under a text that is not its own), and the control  *)
(* says it loads only while its last request is in flight.                 *)
OptionsAreOfText ==
  /\ ~isLoading /\ options # {} /\ ~overtaken => loaded.text = inputValue /\ inputValue = search
  /\ isLoading => lastRequest # NoData /\ requests[lastRequest] # Idle

(* A choice leads to a page on the cluster it was made on, except to the   *)
(* inspector, whose path has a query of its own (SearchBar.tsx:51).        *)
ChoiceKeepsCluster ==
  path # NoData =>
    /\ path.cluster = (IF path.option.page = "/tx/inspector" THEN NoData ELSE path.from)
    /\ path.option.page = "/tx/inspector" => reading[path.of].bytes = NoData

SearchIsTold == KeptIsWhole /\ OptionsAreOfText /\ ChoiceKeepsCluster

(* A search ends.                                                          *)
SearchEnds == isLoading ~> ~isLoading
===============================================================================
