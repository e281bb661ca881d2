--------------------------- MODULE TransactionPages ---------------------------
(* The page of a transaction and the inspector, which is opened with a     *)
(* signature to show a transaction of the ledger, or without, to show what *)
(* is pasted or linked; and two cards of what the inspector shows: the     *)
(* simulation, and the accounts of the message.  They share no state: a    *)
(* behaviour is of one of them.                                            *)
EXTENDS TransactionPage, TLC

CONSTANTS Text, messageOf, inputOf, base64, Signatures, Account, Cluster, Links,
          Malformed, Invalid, MaxActs, MaxFetches, Messages, Simulations, Slot, MaxSwitches,
          TableEntries, Sent, MaxChanges

VARIABLES part,
          params, pending, decoded, inspectorData, fresh, paramString, input, filled,
          entered, raced, acts,
          rawUrl, rawCache, rawRan, fetches, failed,
          simUrl, message, simulating, logs, error, tokenBalanceRows, sims, simRan, switches,
          sentTx, card, onChain, entries, requested, opened, changes

inspector == <<params, pending, decoded, inspectorData, fresh, paramString, input, filled,
               entered, raced, acts>>
permalink == <<rawUrl, rawCache, rawRan, fetches, failed>>
simulator == <<simUrl, message, simulating, logs, error, tokenBalanceRows, sims, simRan, switches>>
messageCards == <<sentTx, card, onChain, entries, requested, opened, changes>>

Inspector == INSTANCE Inspector

ASSUME InspectorAssumption == Inspector!ConstantsAssumption

Permalink == INSTANCE RawTransaction WITH url <- rawUrl, ran <- rawRan

ASSUME PermalinkAssumption == Permalink!NoDataAssumption

Simulator == INSTANCE Simulator WITH Message <- Messages, url <- simUrl, ran <- simRan

ASSUME SimulatorAssumption == Simulator!NoDataAssumption

Cards == INSTANCE MessageCards

-------------------------------------------------------------------------------
(* What a behaviour is not of is at rest.                                  *)
NoPage ==
  /\ url = Home /\ status = "Failure" /\ visible = TRUE /\ stage = "max"
  /\ statuses = Clear(url) /\ details = Clear(url)
  /\ retries = 0 /\ interval = NoData /\ newEntry = FALSE
  /\ statusCalls = [c \in StatusCall |-> FreeCall]
  /\ detailsCalls = [c \in DetailsCall |-> FreeCall]
  /\ reconnects = 0 /\ ran = now

NoParams == [n \in {"cluster", "message", "signatures", "squadsTx"} |->
               IF n = "cluster" THEN CHOOSE c \in Cluster : TRUE ELSE NoData]

NoInspector ==
  /\ params = NoParams /\ decoded = NoParams /\ pending = NoData
  /\ inspectorData = NoData /\ fresh = FALSE /\ paramString = NoData
  /\ input = Inspector!NoText /\ filled = NoData
  /\ entered = Inspector!NoText /\ raced = FALSE /\ acts = 0

NoPermalink ==
  /\ rawUrl = Home /\ rawCache = Clear(rawUrl) /\ rawRan = rawUrl
  /\ fetches = [u \in Url |-> 0] /\ failed = {}

NoSimulator ==
  /\ simUrl = Home /\ simRan = Home /\ message = (CHOOSE m \in Messages : TRUE)
  /\ simulating = FALSE /\ logs = NoData /\ error = FALSE /\ tokenBalanceRows = NoData
  /\ sims = [s \in Slot |-> NoData] /\ switches = 0

NoCards ==
  /\ sentTx = NoData /\ card = NoData /\ onChain = NoData /\ entries = NoData
  /\ requested = {} /\ opened = FALSE /\ changes = 0

PagesInit ==
  \/ part = "page" /\ Init /\ NoInspector /\ NoPermalink /\ NoSimulator /\ NoCards
  \/ part = "inspector" /\ NoPage /\ Inspector!Init /\ NoPermalink /\ NoSimulator /\ NoCards
  \/ part = "permalink" /\ NoPage /\ NoInspector /\ Permalink!Init /\ NoSimulator /\ NoCards
  \/ part = "simulator" /\ NoPage /\ NoInspector /\ NoPermalink /\ Simulator!Init /\ NoCards
  \/ part = "cards" /\ NoPage /\ NoInspector /\ NoPermalink /\ NoSimulator /\ Cards!Init

PagesNext ==
  \/ part = "page" /\ Next /\ UNCHANGED <<part, inspector, permalink, simulator, messageCards>>
  \/ part = "inspector" /\ Inspector!Next /\ UNCHANGED <<part, vars, permalink, simulator, messageCards>>
  \/ part = "permalink" /\ Permalink!Next /\ UNCHANGED <<part, vars, inspector, simulator, messageCards>>
  \/ part = "simulator" /\ Simulator!Next /\ UNCHANGED <<part, vars, inspector, permalink, messageCards>>
  \/ part = "cards" /\ Cards!Next /\ UNCHANGED <<part, vars, inspector, permalink, simulator>>

PagesSpec ==
  /\ PagesInit /\ [][PagesNext]_<<part, vars, inspector, permalink, simulator, messageCards>>
  /\ Fairness /\ Inspector!Fairness /\ Permalink!Fairness /\ Simulator!Fairness

(* The inspector shows what its url says, and what it waits for is asked   *)
(* of the url of the cluster: a raw transaction that is loading has a      *)
(* request under way, unless one failed, and a simulation is under way     *)
(* where the card spins.                                                   *)
InspectedIsOfUrl ==
  /\ Inspector!UrlIsOfShown
  /\ part = "permalink" => Permalink!WaitingIsInFlight
  /\ Simulator!SpinnerIsOfUrl

EnteredIsShown == Inspector!EnteredIsShown

(* What the cards of the inspector tell of a message is so: the balances   *)
(* of the simulation they show, and its accounts.                          *)
MessageIsTold ==
  /\ Simulator!BalancesAreTold
  /\ part = "cards" => Cards!AccountsAreTold

(* Neither the page nor the inspector goes on for ever: polling stops, the *)
(* inspector comes to rest, and its simulations end.                       *)
PagesRest == PollingStops /\ Inspector!InspectorRests /\ Simulator!SimulationEnds

-------------------------------------------------------------------------------
(* Values to check: two messages, one of them also as a whole transaction; *)
(* an account; a text that is nothing; and every kind of each parameter.   *)
MCText == {"m1", "m2", "signed m1", "account", "junk"}

Tx(m, signatures) == [message |-> m, signatures |-> signatures, account |-> NoData]
MCMessageOf == [t \in MCText |-> IF t \in {"m1", "m2"} THEN t ELSE NoData]
MCBase64 == [m \in {"m1", "m2"} |-> m]
MCInputOf == [t \in MCText |->
  IF t \in {"m1", "m2"} THEN Tx(t, NoData)
  ELSE IF t = "signed m1" THEN Tx("m1", "s1")
  ELSE IF t = "account" THEN [message |-> NoData, signatures |-> NoData, account |-> "account"]
  ELSE NoData]
MCParam(t) == {[value |-> t, coded |-> c] : c \in BOOLEAN}
MCLinks ==
  [cluster : {"atlasnet"},
   message : {NoData, Malformed} \cup UNION {MCParam(t) : t \in MCText \ {"m2"}},
   signatures : {NoData, Malformed, Invalid} \cup MCParam("s2"),
   squadsTx : {NoData, Malformed, Invalid, "account"}]

(* Two accounts of tokens, a mint in the message, one that it loads from a *)
(* lookup table, and one with extensions: a transfer, an account closed    *)
(* and one opened, mints that change and that are not in the message.      *)
MCMessages == {<<"a", "m", "b">>, <<"b", "x">>}

Simulated(a, b) ==
  LET all(n) == "a" :> a[n] @@ "b" :> b[n]
                  @@ "m" :> [kind |-> "mint", extended |-> FALSE]
                  @@ "x" :> [kind |-> "mint", extended |-> TRUE]
  IN  [pre |-> all(1), post |-> all(2)]

MCSimulations ==
  LET Of(mint, n) == [kind |-> "account", mint |-> mint, amount |-> n]
      M(n) == Of("m", n)
      L(n) == Of("looked up", n)
      X(n) == Of("x", n)
  IN  {Simulated(<<M(2), M(1)>>, <<M(0), M(1)>>),
       Simulated(<<M(2), NoData>>, <<NoData, M(2)>>),
       Simulated(<<L(1), M(1)>>, <<L(2), L(1)>>),
       Simulated(<<NoData, NoData>>, <<NoData, L(1)>>),
       Simulated(<<X(1), M(2)>>, <<M(1), X(1)>>)}

(* Keys of both tables, one of them in both; a table that is itself        *)
(* written; and a table that is used and not looked up.                    *)
A(k, signer, writable) == [key |-> k, signer |-> signer, writable |-> writable]
Ix(p, accounts) == [program |-> p, accounts |-> accounts]
Transaction(tables, instructions, inner) ==
  [payer |-> "me", tables |-> tables, instructions |-> instructions, inner |-> inner]

MCTableEntries == ("t1" :> <<"a", "b", "c">>) @@ ("t2" :> <<"c", "d">>)
MCSent ==
  {Transaction(<<"t1", "t2">>,
        <<Ix("p", <<A("me", TRUE, TRUE), A("c", FALSE, TRUE), A("a", FALSE, FALSE), A("d", FALSE, TRUE)>>),
          Ix("q", <<A("s", TRUE, FALSE), A("d", FALSE, FALSE), A("x", FALSE, TRUE), A("b", FALSE, TRUE)>>)>>,
        <<<<"p">>, <<>>>>),
   Transaction(<<"t2">>, <<Ix("q", <<A("t2", FALSE, TRUE), A("c", FALSE, FALSE), A("d", FALSE, TRUE)>>)>>, <<<<>>>>),
   Transaction(<<>>, <<Ix("q", <<A("t2", FALSE, TRUE), A("c", FALSE, FALSE), A("d", TRUE, FALSE)>>)>>, <<<<>>>>)}
===============================================================================
