------------------------------- MODULE Services -------------------------------
(* What asks services beside the cluster: the stats of the home page, the  *)
(* cards of a token and the search bar.  A behaviour is of one of them.    *)
EXTENDS Stats, Sequences, SequencesExt, TLC

CONSTANTS
  NoData, Cluster,
  Address, Accounts, Legacy, Sdk, JsonAnswers, Request, MaxActs,     \* see TokenCards
  Text, reading, Known, epochOf, tokensOf, domainOf, Call, MaxInputs \* see SearchBar

VARIABLES part,
          tokenCluster, account, legacy, sdk, json, fetched, fullInfo, mintInfo, isTabVisible,
          effect, coinInfo, calls, selected, uncontrolled, raw, broken, acts,
          cluster, connected, search, inputValue, loaded, isLoading, passEmptyOptions,
          lastRequest, optionsCache, requests, path, overtaken, inputs

tokenState == <<tokenCluster, account, legacy, sdk, json, fetched, fullInfo, mintInfo,
                isTabVisible, effect, coinInfo, calls, selected, uncontrolled, raw, broken, acts>>
searchState == <<cluster, connected, search, inputValue, loaded, isLoading, passEmptyOptions,
                 lastRequest, optionsCache, requests, path, overtaken, inputs>>

Token == INSTANCE TokenCards WITH cluster <- tokenCluster

Search == INSTANCE SearchBar

(* A whole number reads as a number.  An address that reads as a number,   *)
(* or is found in a table with others, is in a table of its cluster (that  *)
(* of the system program is), and a signature reads as nothing else.       *)
InTable(text, c) == \E k \in Known : k.address \in reading[text].matches /\ c \in k.deployments

ASSUME ReadingAssumption ==
  \A text \in Text :
    /\ reading[text].integer # NoData => reading[text].number
    /\ \A c \in Cluster :
         /\ reading[text].bytes = 32 /\ (reading[text].number \/ InTable(text, c)) =>
              \E k \in Known : k.address = text /\ text \in reading[text].matches /\ c \in k.deployments
         /\ reading[text].bytes = 64 => ~reading[text].number /\ ~InTable(text, c)

ASSUME NoDataAssumption == NoData \notin Call \cup Int

-------------------------------------------------------------------------------
(* What a behaviour is not of is at rest.                                  *)
FirstUrl == CHOOSE u \in Url : TRUE
FirstCluster == CHOOSE c \in Cluster : TRUE

NoStats ==
  /\ url = FirstUrl /\ visible = FALSE /\ active = FALSE
  /\ dashboard = initialDashboardInfo /\ performance = initialPerformanceInfo
  /\ ran = Rendered /\ lastSlot = FALSE
  /\ live = {} /\ stale = [k \in FailingKind |-> 0] /\ timer = {}
  /\ switches = 0 /\ toggles = 0 /\ retries = 0

NoToken ==
  /\ tokenCluster = FirstCluster
  /\ account = [program |-> "token", type |-> "mint", info |-> <<>>, nftData |-> NoData]
  /\ legacy = NoData /\ sdk = NoData /\ json = NoData
  /\ fetched = TRUE /\ fullInfo = Token!Unasked /\ mintInfo = Token!Unasked
  /\ isTabVisible = FALSE
  /\ effect = 0 /\ coinInfo = Token!Nothing /\ calls = [r \in Request |-> Token!Idle]
  /\ selected = NoData /\ uncontrolled = NoData /\ raw = {} /\ broken = FALSE /\ acts = 0

NoSearch ==
  /\ cluster = FirstCluster /\ connected = TRUE /\ search = NoData
  /\ inputValue = NoData /\ loaded = Search!NotLoaded
  /\ isLoading = FALSE /\ passEmptyOptions = FALSE /\ lastRequest = NoData
  /\ optionsCache = <<>> /\ requests = [r \in Call |-> Search!Idle]
  /\ path = NoData /\ overtaken = FALSE /\ inputs = 0

(* No definition of Stats names a cluster: from one url of Custom a switch *)
(* leads to the other of the same cluster or to one of another.  The tab   *)
(* of the stats is open at first (ServicesProofs starts from every state).    *)
ServicesInit ==
  \/ part = "stats" /\ Init /\ url = FirstUrl /\ visible /\ NoToken /\ NoSearch
  \/ part = "token" /\ NoStats /\ Token!Init /\ NoSearch
  \/ part = "search" /\ NoStats /\ NoToken /\ Search!Init

ServicesNext ==
  \/ part = "stats" /\ Next /\ UNCHANGED <<part, tokenState, searchState>>
  \/ part = "token" /\ Token!Next /\ UNCHANGED <<part, vars, searchState>>
  \/ part = "search" /\ Search!Next /\ UNCHANGED <<part, vars, tokenState>>

ServicesSpec ==
  /\ ServicesInit /\ [][ServicesNext]_<<part, vars, tokenState, searchState>>
  /\ Fairness /\ Token!Fairness /\ Search!Fairness

TokenIsTold == part = "token" => Token!TokenIsTold
SearchIsTold == part = "search" => Search!SearchIsTold

(* No spinner, price, page of extensions or search waits for ever.         *)
ServicesSettle == SpinnerEnds /\ Token!PriceSettles /\ Token!PageSettles /\ Search!SearchEnds

-------------------------------------------------------------------------------
(* Two urls of Custom and one of another cluster.                          *)
MCClusterOf == ("u1" :> "Custom") @@ ("u2" :> "Custom") @@ ("u3" :> "Named")

(* Accounts of tokens: mints with and without metadata, extensions and     *)
(* editions, accounts of them, a multisig, and one that is not valid.      *)
Ext(kind, state) == [extension |-> kind, state |-> state]

MintOf(decimals, supply, authority) ==
  [decimals |-> decimals, supply |-> supply, mintAuthority |-> authority,
   freezeAuthority |-> NoData, isInitialized |-> TRUE]

Nft(uri, edition, printed) ==
  [tokenStandard |-> 0, name |-> "on chain", uri |-> uri, json |-> uri, masterEdition |-> edition,
   edition |-> printed, collection |-> [key |-> "collection", verified |-> TRUE, fetched |-> TRUE],
   updateAuthority |-> "dev", sellerFeeBasisPoints |-> 500]

TokenOf(native) ==
  [isNative |-> native, mint |-> "mint", owner |-> "owner", state |-> "frozen", tokenAmount |-> 3,
   delegate |-> "delegate"]

Account(program, type, info, nft) ==
  [program |-> program, type |-> type, info |-> info, nftData |-> nft]
With(info, list) == info @@ ("extensions" :> list)

(* Extensions whose every value is there, and with none that may be null.  *)
MCExtensions ==
  LET Full(kind) == Ext(kind, [f \in Token!Schema[kind] |-> IF f = "newerTransferFee" THEN 5 ELSE 1])
      Bare(kind) == Ext(kind, [f \in Token!Schema[kind] |-> IF f \in Token!Optionals THEN NoData ELSE 1])
      Pointer(to) == Ext("metadataPointer", [authority |-> NoData, metadataAddress |-> to])
      Unparseable(state) == Ext("unparseableExtension", state)
  IN  [own |-> <<Full("transferFeeConfig"), Pointer("address"), Full("tokenMetadata")>>,
       elsewhere |-> <<Pointer("other"), Bare("tokenMetadata"), Full("interestBearingConfig")>>,
       unparseable |-> <<Unparseable(<<1>>), Bare("transferHook"), Unparseable(<<2>>)>>,
       unreadable |-> <<Full("mintCloseAuthority"), Ext("groupPointer", <<>>)>>,
       ofAccount |-> <<Full("immutableOwner"), Full("confidentialTransferAccount")>>]

MCAccounts ==
  LET Fungible == MintOf(6, 1000, "dev")
      One == MintOf(0, 1, NoData)
      list == MCExtensions
      Mints2022 == {Account("token-2022", "mint", With(Fungible, list[k]), NoData) :
                    k \in {"own", "elsewhere", "unparseable", "unreadable"}}
  IN  Mints2022 \cup
      {Account("token", "mint", Fungible, NoData),
       Account("token", "mint", [Fungible EXCEPT !.isInitialized = FALSE], Nft("uri", NoData, NoData)),
       Account("token", "mint", One, Nft("uri", [supply |-> 0, maxSupply |-> 0], NoData)),
       Account("token", "mint", One, Nft(NoData, [supply |-> 0, maxSupply |-> 5], 2)),
       Account("token-2022", "account", With(TokenOf(FALSE), list.ofAccount), NoData),
       Account("token", "account", TokenOf(TRUE) @@ [delegatedAmount |-> 2, rentExemptReserve |-> 1], NoData),
       Account("token", "multisig", [isInitialized |-> FALSE, numRequiredSigners |-> 1,
                                     numValidSigners |-> 2, signers |-> <<"a", "b">>], NoData),
       Account("token", "mint", [decimals |-> 6], NoData)}

MCLegacy ==
  {NoData, [name |-> "Atlas", symbol |-> "ATLAS",
            extensions |-> [website |-> NoData, bridgeContract |-> "0x", assetContract |-> "0y",
                            coingeckoId |-> "atlas"]]}
MCSdk ==
  {NoData, [name |-> "Atlas", symbol |-> "ATLAS", decimals |-> 6, verified |-> FALSE],
   [name |-> "Other", symbol |-> "OTHER", decimals |-> NoData, verified |-> TRUE]}

(* Texts: a fraction, an address that is also a number, another, *)
(* a domain and a message.                                                 *)
Reading(number, integer, bytes) ==
  [number |-> number, integer |-> integer, hex |-> FALSE, bytes |-> bytes, domain |-> FALSE,
   message |-> NoData, matches |-> {}]

MCReading ==
  [fraction |-> Reading(TRUE, NoData, NoData),
   system |-> [Reading(TRUE, 1000, 32) EXCEPT !.matches = {"system"}],
   account |-> [Reading(FALSE, NoData, 32) EXCEPT !.matches = {"account"}],
   domain |-> [Reading(FALSE, NoData, NoData) EXCEPT !.domain = TRUE, !.integer = NoData],
   message |-> [Reading(FALSE, NoData, NoData) EXCEPT !.message = "decoded"]]

MCKnown ==
  {[label |-> "Programs", address |-> "system", deployments |-> {"MainnetBeta", "Custom"}],
   [label |-> "Programs", address |-> "account", deployments |-> {"MainnetBeta"}]}

MCTokensOf ==
  [t \in DOMAIN MCReading |->
     [MainnetBeta |-> IF t = "account" THEN {"token"} ELSE {}, Custom |-> {}]]

MCText == DOMAIN MCReading
MCDomainOf == [t \in DOMAIN MCReading |-> IF t = "domain" THEN "owner" ELSE NoData]
MCEpochOf == [MainnetBeta |-> 1, Custom |-> 0]
===============================================================================
