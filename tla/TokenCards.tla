------------------------------ MODULE TokenCards ------------------------------
(***************************************************************************)
(* What the page of a token's account tells: the header of a mint, the     *)
(* card of the account (components/account/TokenAccountSection.tsx) with   *)
(* the price a service is asked for every ten seconds (utils/coingecko.tsx)*)
(* and the page of its extensions.                                         *)
(*                                                                         *)
(* How the account is fetched is in Accounts, the tabs of the page are in  *)
(* AddressTabs.  Here the account is on display or is being fetched, and   *)
(* when it is fetched again everything below the header is mounted anew.   *)
(* An account is [program, type, info, nftData]; an address, an amount and *)
(* a text are model values, and NoData what is absent.                     *)
(***************************************************************************)
EXTENDS Integers, Sequences, SequencesExt, FiniteSetsExt

CONSTANTS
  NoData,
  Address,         \* the address of the page
  Accounts,        \* the accounts that may be there
  Legacy, Sdk,     \* what the two token lists may answer
  Cluster,         \* "MainnetBeta", "Devnet" or "Custom"
  JsonAnswers,     \* what the uri of a mint's own metadata may answer
  Request,         \* names of the requests for a price
  MaxActs          \* bound on what the user and the clock do

VARIABLES
  cluster, account,
  legacy, sdk, json, \* what the services answer
  fetched,         \* the account is on display
  fullInfo,        \* SWR: the information of the header and the card
  mintInfo,        \* SWR: the information of the page of extensions
  isTabVisible,
  effect,          \* the run of useCoinGecko's effect in force, or 0
  coinInfo,        \* its state
  calls,           \* its requests, [effect, stage, at]
  selected,        \* state of TokenExtensionsSection
  uncontrolled,    \* state of the accordion itself
  raw,             \* the extensions whose showRaw is set
  broken,          \* the boundary around the page shows its error
  acts

cardVars == <<cluster, account, legacy, sdk, json, fetched, fullInfo, mintInfo, isTabVisible,
              effect, coinInfo, calls, selected, uncontrolled, raw, broken, acts>>
services == <<cluster, account, legacy, sdk, json>>

State(status, data) == [status |-> status, data |-> data]
Unasked == State("unasked", NoData)
Asked == State("asked", NoData)
Failed == State("failed", NoData)
Answered(data) == State("answered", data)
asksAgain(state) == state.status \in {"unasked", "failed"}

-------------------------------------------------------------------------------
(* The token lists *)

(* getTokenInfo: a custom cluster has no list.                             *)
getTokenInfo == IF cluster = "Custom" THEN NoData ELSE sdk

(* getFullTokenInfo: the fields of the newer list are preferred, the links *)
(* are of the older one, and what is in the older one alone is verified.   *)
getFullTokenInfo ==
  IF cluster = "Custom" THEN NoData
  ELSE IF getTokenInfo = NoData
    THEN IF legacy = NoData THEN NoData
         ELSE [name |-> legacy.name, symbol |-> legacy.symbol, verified |-> TRUE,
               extensions |-> legacy.extensions]
    ELSE [name |-> sdk.name, symbol |-> sdk.symbol, verified |-> sdk.verified,
          extensions |-> IF legacy = NoData THEN NoData ELSE legacy.extensions]

tokenInfo == fullInfo.data
link(name) ==
  IF tokenInfo = NoData \/ tokenInfo.extensions = NoData THEN NoData
  ELSE tokenInfo.extensions[name]

-------------------------------------------------------------------------------
(* The kind of the account *)

(* What superstruct requires of an account that was parsed.                *)
MintAccountInfo == {"decimals", "freezeAuthority", "isInitialized", "mintAuthority", "supply"}
TokenAccountInfo == {"isNative", "mint", "owner", "state", "tokenAmount"}
MultisigAccountInfo == {"isInitialized", "numRequiredSigners", "numValidSigners", "signers"}

isValid(a) ==
  CASE a.type = "mint" -> MintAccountInfo \subseteq DOMAIN a.info
    [] a.type = "account" -> TokenAccountInfo \subseteq DOMAIN a.info
    [] a.type = "multisig" -> MultisigAccountInfo \subseteq DOMAIN a.info

isMetaplexNFT(a) ==
  /\ a.type = "mint" /\ a.nftData # NoData
  /\ a.info.decimals = 0
  /\ a.info.supply = 1 \/ a.nftData.tokenStandard = 1

(* TokenAccountSection: an account that is not valid is shown as one of    *)
(* which nothing is known.                                                 *)
Section(a) ==
  IF ~isValid(a) THEN "unknown"
  ELSE IF isMetaplexNFT(a) THEN "nft" ELSE a.type

-------------------------------------------------------------------------------
(* The rows of the cards: names and values; some are there only if the     *)
(* account has a value.                                                    *)
Row(name, value) == [name |-> name, value |-> value]
Always(name, value) == <<Row(name, value)>>
If(condition, rows) == IF condition THEN rows ELSE <<>>
Optional(name, value) == If(value # NoData, Always(name, value))

Field(record, name) == IF name \in DOMAIN record THEN record[name] ELSE NoData

(* FungibleTokenMintAccountCard: the supply in units of the token.  The    *)
(* contract of an asset links to the contract of its bridge.               *)
MintRows(a) ==
  LET info == a.info
  IN  Always("Address", Address)
      \o Always(IF info.mintAuthority = NoData THEN "Fixed Supply" ELSE "Current Supply",
                <<info.supply, info.decimals>>)
      \o Optional("Website", link("website"))
      \o Optional("Mint Authority", info.mintAuthority)
      \o Optional("Freeze Authority", info.freezeAuthority)
      \o Always("Decimals", info.decimals)
      \o If(~info.isInitialized, Always("Status", "Uninitialized"))
      \o Optional("Bridge Contract", link("bridgeContract"))
      \o If(link("assetContract") # NoData,
            Always("Bridged Asset Contract", <<link("assetContract"), link("bridgeContract")>>))

Title(a) ==
  IF tokenInfo # NoData THEN "Overview"
  ELSE IF a.program = "token-2022" THEN "Token-2022 Mint" ELSE "Token Mint"

(* NonFungibleTokenMintAccountCard: an edition that may not be printed and *)
(* one that was not are one.                                               *)
NftRows(a) ==
  LET nft == a.nftData
      atLeastOne(n) == IF n = 0 THEN 1 ELSE n
      edition == nft.masterEdition
      collection == nft.collection
  IN  Always("Address", Address)
      \o If(edition # NoData /\ edition.maxSupply # NoData,
            Always("Max Total Supply", atLeastOne(edition.maxSupply)))
      \o If(edition # NoData, Always("Current Supply", atLeastOne(edition.supply)))
      \o If(collection # NoData /\ collection.verified,
            Always("Verified Collection Address", collection.key))
      \o Optional("Mint Authority", a.info.mintAuthority)
      \o Optional("Freeze Authority", a.info.freezeAuthority)
      \o Always("Update Authority", nft.updateAuthority)
      \o Optional("Website", nft.json)
      \o Always("Seller Fee", nft.sellerFeeBasisPoints)

(* TokenAccountCard: the symbol is of the chain for a native account and   *)
(* else of the token list; the amounts of a native one are in its unit.    *)
symbol(a) ==
  IF a.info.isNative THEN "SOL"
  ELSE IF mintInfo.data = NoData THEN NoData ELSE mintInfo.data.symbol

TokenRows(a) ==
  LET info == a.info
      delegated == IF Field(info, "delegatedAmount") = NoData THEN 0 ELSE info.delegatedAmount
      amount(n) == [amount |-> n, prefix |-> info.isNative, symbol |-> symbol(a)]
  IN  Always("Address", Address)
      \o Always("Mint", info.mint)
      \o Always("Owner", info.owner)
      \o Always("Token balance", amount(info.tokenAmount))
      \o Always("Status", info.state)
      \o Optional("Rent-exempt reserve", Field(info, "rentExemptReserve"))
      \o If(Field(info, "delegate") # NoData,
            Always("Delegate", info.delegate) \o Always("Delegated amount", amount(delegated)))

MultisigRows(a) ==
  Always("Address", Address)
  \o Always("Required Signers", a.info.numRequiredSigners)
  \o Always("Valid Signers", a.info.numValidSigners)
  \o [i \in DOMAIN a.info.signers |-> Row("Signer", a.info.signers[i])]
  \o If(~a.info.isInitialized, Always("Status", "Uninitialized"))

(* UnknownAccountCard.                                                     *)
UnknownRows(a) == Always("Address", Address) \o Always("Assigned Program Id", a.program)

Rows(a) ==
  CASE Section(a) = "mint" -> MintRows(a)
    [] Section(a) = "nft" -> NftRows(a)
    [] Section(a) = "account" -> TokenRows(a)
    [] Section(a) = "multisig" -> MultisigRows(a)
    [] Section(a) = "unknown" -> UnknownRows(a)

-------------------------------------------------------------------------------
(* The header *)

extensions(a) ==
  IF isValid(a) /\ Field(a.info, "extensions") # NoData THEN a.info.extensions ELSE <<>>
kinds(a) == {e.extension : e \in ToSet(extensions(a))}
first(a, kind) ==
  extensions(a)[SelectInSeq(extensions(a), LAMBDA e : e.extension = kind)]
last(a, kind) ==
  extensions(a)[SelectLastInSeq(extensions(a), LAMBDA e : e.extension = kind)]

TokenMintHeaderCard(name, unverified) == [kind |-> "token", name |-> name, warns |-> unverified]

defaultCard ==
  IF tokenInfo = NoData THEN TokenMintHeaderCard(NoData, FALSE)
  ELSE TokenMintHeaderCard(tokenInfo.name, ~tokenInfo.verified)

(* Token22MintHeader: a mint that holds its own metadata is named by the   *)
(* uri of it.  While that is asked for, when it cannot be had and when the *)
(* metadata is elsewhere the default card is shown.                        *)
hasMetadata(a) == {"tokenMetadata", "metadataPointer"} \subseteq kinds(a)
pointsAtItself(a) == Field(first(a, "metadataPointer").state, "metadataAddress") = Address

Token22MintHeader(a) ==
  IF json # NoData /\ pointsAtItself(a) THEN TokenMintHeaderCard(json, FALSE) ELSE defaultCard

(* Mutant: a token the list does not know is not warned of.                *)
TokenMintHeaderIfListed(a) ==
  IF hasMetadata(a) THEN Token22MintHeader(a)
  ELSE IF a.nftData = NoData \/ (a.nftData.uri = NoData /\ tokenInfo # NoData) THEN defaultCard
  ELSE TokenMintHeaderCard(IF a.nftData.json # NoData THEN a.nftData.json ELSE a.nftData.name,
                           tokenInfo # NoData /\ ~tokenInfo.verified)

TokenMintHeader(a) ==
  IF hasMetadata(a) THEN Token22MintHeader(a)
  ELSE IF a.nftData = NoData \/ (a.nftData.uri = NoData /\ tokenInfo # NoData) THEN defaultCard
  ELSE TokenMintHeaderCard(IF a.nftData.json # NoData THEN a.nftData.json ELSE a.nftData.name,
                           tokenInfo = NoData \/ ~tokenInfo.verified)

(* MetaplexNFTHeader: the pill of a collection needs the account of it.    *)
MetaplexNFTHeader(a) ==
  LET nft == a.nftData
      collection == nft.collection
  IN  [kind |-> "nft", name |-> nft.name,
       edition |-> IF nft.masterEdition = NoData THEN "No Master Edition Information"
                   ELSE IF nft.edition # NoData THEN "Edition" ELSE "Master Edition",
       verifiedCollection |-> collection # NoData /\ collection.verified /\ collection.fetched]

isTokenInfoLoading == fullInfo.status = "asked"

HeaderShows ==
  IF ~fetched THEN [kind |-> "account"]
  ELSE IF isValid(account) /\ isMetaplexNFT(account) THEN MetaplexNFTHeader(account)
  ELSE IF account.type = "mint" /\ ~isTokenInfoLoading THEN TokenMintHeader(account)
  ELSE [kind |-> "account"]

-------------------------------------------------------------------------------
(* The extensions of a token *)

(* What an extension's state must have (validators/accounts/               *)
(* token-extension.ts); a value may be null where the row is optional.     *)
Schema ==
  [transferFeeConfig |-> {"newerTransferFee", "olderTransferFee", "transferFeeConfigAuthority",
                          "withdrawWithheldAuthority", "withheldAmount"},
   transferFeeAmount |-> {"withheldAmount"},
   mintCloseAuthority |-> {"closeAuthority"},
   defaultAccountState |-> {"accountState"},
   memoTransfer |-> {"requireIncomingTransferMemos"},
   cpiGuard |-> {"lockCpi"},
   permanentDelegate |-> {"delegate"},
   interestBearingConfig |-> {"currentRate", "initializationTimestamp", "lastUpdateTimestamp",
                              "preUpdateAverageRate", "rateAuthority"},
   confidentialTransferMint |-> {"auditorElgamalPubkey", "authority", "autoApproveNewAccounts"},
   confidentialTransferFeeConfig |-> {"authority", "harvestToMintEnabled",
                                      "withdrawWithheldAuthorityElgamalPubkey", "withheldAmount"},
   confidentialTransferAccount |->
     {"actualPendingBalanceCreditCounter", "allowConfidentialCredits",
      "allowNonConfidentialCredits", "approved", "availableBalance", "decryptableAvailableBalance",
      "elgamalPubkey", "expectedPendingBalanceCreditCounter", "maximumPendingBalanceCreditCounter",
      "pendingBalanceCreditCounter", "pendingBalanceHi", "pendingBalanceLo"},
   confidentialTransferFeeAmount |-> {"withheldAmount"},
   metadataPointer |-> {"authority", "metadataAddress"},
   tokenMetadata |-> {"additionalMetadata", "mint", "name", "symbol", "updateAuthority", "uri"},
   transferHook |-> {"authority", "programId"},
   transferHookAccount |-> {"transferring"},
   groupPointer |-> {"authority", "groupAddress"},
   groupMemberPointer |-> {"authority", "memberAddress"},
   tokenGroup |-> {"maxSize", "mint", "size", "updateAuthority"},
   tokenGroupMember |-> {"group", "memberNumber", "mint"},
   immutableOwner |-> {}, nonTransferable |-> {}, nonTransferableAccount |-> {},
   unparseableExtension |-> {}]

isReadable(e) == Schema[e.extension] \subseteq DOMAIN e.state

(* TokenExtensionRow: a row is [name, field]; the switches are in words.   *)
R(name, field) == <<name, field>>

AuthorityRows ==
  [mintCloseAuthority |-> <<R("Close Authority", "closeAuthority")>>,
   permanentDelegate |-> <<R("Permanent Delegate", "delegate")>>]

PointerRows ==
  [transferHook |-> <<R("Transfer Hook Program Id", "programId"),
                      R("Transfer Hook Authority", "authority")>>,
   metadataPointer |-> <<R("Metadata", "metadataAddress"),
                         R("Metadata Pointer Authority", "authority")>>,
   groupPointer |-> <<R("Token Group", "groupAddress"), R("Group Pointer Authority", "authority")>>,
   groupMemberPointer |-> <<R("Token Group Member", "memberAddress"),
                            R("Member Pointer Authority", "authority")>>]

StateRows ==
  [transferFeeAmount |-> <<R("Withheld Amount", "withheldAmount")>>,
   defaultAccountState |-> <<R("DefaultAccountState", "accountState")>>,
   memoTransfer |-> <<R("Require Memo on Incoming Transfers", "requireIncomingTransferMemos")>>,
   transferHookAccount |-> <<R("Transfer Hook Status", "transferring")>>,
   cpiGuard |-> <<R("CPI Guard", "lockCpi")>>,
   immutableOwner |-> <<R("Immutable Owner", "enabled")>>,
   nonTransferable |-> <<R("Non-Transferable", "enabled")>>,
   nonTransferableAccount |-> <<R("Non-Transferable", "enabled")>>,
   unparseableExtension |-> <<R("Unknown Extension", "unparseable")>>]

ConfidentialRows ==
  [confidentialTransferMint |->
     <<R("Authority", "authority"), R("Auditor Elgamal Pubkey", "auditorElgamalPubkey"),
       R("New Account Approval Policy", "autoApproveNewAccounts")>>,
   confidentialTransferFeeConfig |->
     <<R("Authority", "authority"),
       R("Auditor Elgamal Pubkey", "withdrawWithheldAuthorityElgamalPubkey"),
       R("Harvest to Mint", "harvestToMintEnabled"),
       R("Encrypted Withheld Amount", "withheldAmount")>>,
   confidentialTransferFeeAmount |-> <<R("Encrypted Withheld Amount", "withheldAmount")>>]

ConfidentialAccountRows ==
  [confidentialTransferAccount |->
     <<R("Status", "approved"), R("Elgamal Pubkey", "elgamalPubkey"),
       R("Confidential Credits", "allowConfidentialCredits"),
       R("Non-confidential Credits", "allowNonConfidentialCredits"),
       R("Available Balance", "availableBalance"),
       R("Decryptable Available Balance", "decryptableAvailableBalance"),
       R("Pending Balance, Low Bits", "pendingBalanceLo"),
       R("Pending Balance, High Bits", "pendingBalanceHi"),
       R("Pending Balance Credit Counter", "pendingBalanceCreditCounter"),
       R("Expected Pending Balance Credit Counter", "expectedPendingBalanceCreditCounter"),
       R("Actual Pending Balance Credit Counter", "actualPendingBalanceCreditCounter"),
       R("Maximum Pending Balance Credit Counter", "maximumPendingBalanceCreditCounter")>>]

(* The newer fee is of the future while its epoch is to come.              *)
FeeRows(state, epoch) ==
  LET coming == state.newerTransferFee > epoch
  IN  <<R("Transfer Fee Authority", "transferFeeConfigAuthority"),
        R(IF coming THEN "Current" ELSE "Previous", "olderTransferFee"),
        R(IF coming THEN "Future" ELSE "Current", "newerTransferFee"),
        R("Withdraw Withheld Fees Authority", "withdrawWithheldAuthority"),
        R("Withheld Amount", "withheldAmount")>>

InterestRows ==
  [interestBearingConfig |->
     <<R("Authority", "rateAuthority"), R("Current Rate", "currentRate"),
       R("Pre-Current Average Rate", "preUpdateAverageRate"),
       R("Last Update Timestamp", "lastUpdateTimestamp"),
       R("Initialization Timestamp", "initializationTimestamp")>>]

MetadataRows ==
  [tokenMetadata |->
     <<R("Mint", "mint"), R("Update Authority", "updateAuthority"), R("Name", "name"),
       R("Symbol", "symbol"), R("URI", "uri"), R("Additional Metadata", "additionalMetadata")>>]

GroupRows ==
  [tokenGroup |-> <<R("Mint", "mint"), R("Update Authority", "updateAuthority"),
                    R("Current Size", "size"), R("Max Size", "maxSize")>>,
   tokenGroupMember |-> <<R("Mint", "mint"), R("Group", "group"),
                          R("Member Number", "memberNumber")>>]

Optionals ==
  {"closeAuthority", "delegate", "transferFeeConfigAuthority", "withdrawWithheldAuthority",
   "authority", "auditorElgamalPubkey", "withdrawWithheldAuthorityElgamalPubkey", "rateAuthority",
   "programId", "metadataAddress", "groupAddress", "memberAddress", "updateAuthority"}

TokenExtensionRow(e, maybeEpoch) ==
  LET Tables == {AuthorityRows, PointerRows, StateRows, ConfidentialRows, ConfidentialAccountRows,
                 InterestRows, MetadataRows, GroupRows}
      table == CHOOSE t \in Tables : e.extension \in DOMAIN t
      rows == IF e.extension = "transferFeeConfig"
                THEN FeeRows(e.state, IF maybeEpoch = NoData THEN 0 ELSE maybeEpoch)
                ELSE table[e.extension]
  IN  SelectSeq(rows, LAMBDA row : row[2] \in Optionals => e.state[row[2]] # NoData)

(* TokenExtensionsEntriesRenderer and TokenExtensionsCard: the page needs  *)
(* the decimals of the mint, and renders the rows of every extension,      *)
(* opened or not; what is thrown there is caught by a boundary that keeps  *)
(* its error until it is mounted anew.                                     *)
Mounted == fetched /\ fullInfo.status \in {"answered", "failed"}

hasPage(a) == isValid(a) /\ extensions(a) # <<>>
PageThrows ==
  /\ Mounted
  /\ \/ ~isValid(account) /\ account.type # "multisig"
     \/ /\ hasPage(account) /\ mintInfo.status \in {"answered", "failed"}
        /\ \/ mintInfo.data = NoData \/ mintInfo.data.decimals = NoData
           \/ \E e \in ToSet(extensions(account)) :
                e.extension \notin raw /\ ~isReadable(e)

PageShows ==
  IF ~Mounted THEN "nothing"
  ELSE IF broken \/ ~hasPage(account) THEN "Can not fetch extensions."
  ELSE IF mintInfo.status \in {"unasked", "asked"} THEN "loading" ELSE "extensions"

(* TokenExtensionsSection: an item for each kind of extension; the first   *)
(* of the kind gives the rows, and the last what is shown of it raw.  The  *)
(* accordion is controlled only while an item is selected.                 *)
opened == IF selected # NoData THEN selected ELSE uncontrolled
Item(kind) ==
  IF kind \in raw THEN [raw |-> last(account, kind).state, rows |-> <<>>]
  ELSE [raw |-> NoData, rows |-> TokenExtensionRow(first(account, kind), NoData)]

-------------------------------------------------------------------------------
(* The price *)

Nothing == [status |-> "nothing", at |-> 0]
Idle == [effect |-> 0, stage |-> "idle", at |-> 0]
coinId == link("coingeckoId")

(* Whether the effect asks for prices at all.                              *)
asksForPrices ==
  /\ Mounted /\ Section(account) = "mint"
  /\ coinId \notin {NoData, "solana"} /\ isTabVisible /\ cluster = "MainnetBeta"

(* getCoinInfo: its first call of an effect shows that the price is loaded.*)
getCoinInfo(run, refresh) ==
  /\ \E r \in Request :
       /\ calls[r] = Idle
       /\ calls' = [calls EXCEPT ![r] = [effect |-> run, stage |-> "asked", at |-> acts']]
  /\ coinInfo' = IF refresh THEN coinInfo ELSE [status |-> "loading", at |-> acts']

(* The effect of useCoinGecko runs anew: what it asked before is stale.    *)
RunEffect ==
  IF asksForPrices'
    THEN effect' = acts' + 1 /\ getCoinInfo(acts' + 1, FALSE)
    ELSE effect' = 0 /\ UNCHANGED <<calls, coinInfo>>

-------------------------------------------------------------------------------
Init ==
  /\ cluster \in Cluster /\ account \in Accounts
  /\ legacy \in Legacy /\ sdk \in Sdk /\ json \in JsonAnswers
  /\ fetched = FALSE /\ fullInfo = Unasked /\ mintInfo = Unasked
  /\ isTabVisible = TRUE
  /\ effect = 0 /\ coinInfo = Nothing /\ calls = [r \in Request |-> Idle]
  /\ selected = NoData /\ uncontrolled = NoData /\ raw = {}
  /\ broken = FALSE /\ acts = 0

Act == acts < MaxActs /\ acts' = acts + 1

(* The cards are mounted, or left: what they kept is gone.                 *)
usesMint == hasPage(account) \/ Section(account) = "account"
Mount ==
  /\ mintInfo' = IF usesMint /\ mintInfo.data = NoData THEN Asked ELSE mintInfo
  /\ RunEffect
  /\ UNCHANGED <<selected, uncontrolled, raw>>

Unmount ==
  /\ effect' = 0 /\ coinInfo' = Nothing /\ calls' = [r \in Request |-> Idle]
  /\ selected' = NoData /\ uncontrolled' = NoData /\ raw' = {}

MountIfLoaded ==
  IF Mounted' THEN Mount
  ELSE UNCHANGED <<mintInfo, effect, coinInfo, calls, selected, uncontrolled, raw>>

(* The account is fetched; the lists are asked unless they have answered.  *)
Fetch ==
  /\ ~fetched
  /\ fetched' = TRUE
  /\ fullInfo' = IF fullInfo.data # NoData THEN fullInfo ELSE Asked
  /\ UNCHANGED <<services, isTabVisible, acts>>
  /\ MountIfLoaded

AnswerFullInfo ==
  /\ fullInfo.status = "asked"
  /\ fullInfo' \in {Answered(getFullTokenInfo)} \cup (IF cluster = "Custom" THEN {} ELSE {Failed})
  /\ UNCHANGED <<services, fetched, isTabVisible, acts>>
  /\ MountIfLoaded

(* SWR asks again; meanwhile the page shows that it is loading.            *)
RetryFullInfo ==
  /\ fetched /\ fullInfo = Failed /\ Act
  /\ fullInfo' = Asked
  /\ Unmount
  /\ UNCHANGED <<services, fetched, mintInfo, isTabVisible>>

(* Refresh, of the card and of the page of extensions.                     *)
Refresh ==
  /\ Mounted /\ Act
  /\ fetched' = FALSE
  /\ Unmount
  /\ UNCHANGED <<services, fullInfo, mintInfo, isTabVisible>>

AnswerMintInfo ==
  /\ mintInfo.status = "asked"
  /\ mintInfo' \in {Answered(getTokenInfo)} \cup (IF cluster = "Custom" THEN {} ELSE {Failed})
  /\ UNCHANGED <<services, fetched, fullInfo, isTabVisible, effect, coinInfo, calls,
                 selected, uncontrolled, raw, acts>>

(* Only the card of an account stays mounted when the page has failed.     *)
RetryMintInfo ==
  /\ Mounted /\ mintInfo = Failed /\ Section(account) = "account"
  /\ mintInfo' = Asked
  /\ UNCHANGED <<services, fetched, fullInfo, isTabVisible, effect, coinInfo, calls,
                 selected, uncontrolled, raw, acts>>

-------------------------------------------------------------------------------
SetVisible(visible) ==
  /\ visible # isTabVisible /\ Act
  /\ isTabVisible' = visible
  /\ UNCHANGED <<services, fetched, fullInfo, mintInfo, selected, uncontrolled, raw>>
  /\ RunEffect

(* The interval of PRICE_REFRESH.                                          *)
Tick ==
  /\ effect # 0 /\ Act
  /\ getCoinInfo(effect, TRUE)
  /\ UNCHANGED <<services, fetched, fullInfo, mintInfo, isTabVisible, effect,
                 selected, uncontrolled, raw>>

ofPage == <<services, fetched, fullInfo, mintInfo, isTabVisible, effect, selected, uncontrolled,
            raw, acts>>

(* The response: a stale one is dropped, of another the body is read.      *)
Respond(r) ==
  /\ calls[r].stage = "asked"
  /\ calls' = [calls EXCEPT ![r] = IF calls[r].effect # effect THEN Idle
                                   ELSE [calls[r] EXCEPT !.stage = "reading"]]
  /\ UNCHANGED <<ofPage, coinInfo>>

ReadPrice(r) ==
  /\ calls[r].stage = "reading"
  /\ coinInfo' = [status |-> "success", at |-> calls[r].at]
  /\ calls' = [calls EXCEPT ![r] = Idle]
  /\ UNCHANGED ofPage

(* A request that fails is told whether it is stale or not.                *)
FailPrice(r) ==
  /\ calls[r] # Idle
  /\ coinInfo' = [status |-> "failed", at |-> 0]
  /\ calls' = [calls EXCEPT ![r] = Idle]
  /\ UNCHANGED ofPage

-------------------------------------------------------------------------------
ofAccordion == <<services, fetched, fullInfo, mintInfo, isTabVisible, effect, coinInfo, calls>>

(* A click on an item: the accordion opens or closes it if it is not       *)
(* controlled, and the item deselects itself.                              *)
Click(kind) ==
  /\ PageShows = "extensions" /\ kind \in kinds(account) /\ Act
  /\ uncontrolled' = IF selected # NoData THEN uncontrolled
                     ELSE IF uncontrolled = kind THEN NoData ELSE kind
  /\ selected' = IF selected = kind THEN NoData ELSE selected
  /\ UNCHANGED <<ofAccordion, raw>>

ToggleRaw(kind) ==
  /\ PageShows = "extensions" /\ kind \in kinds(account) /\ Act
  /\ raw' = IF kind \in raw THEN raw \ {kind} ELSE raw \cup {kind}
  /\ selected' = IF selected = kind THEN NoData ELSE kind
  /\ UNCHANGED <<ofAccordion, uncontrolled>>

Boundary == broken' = (Mounted' /\ (broken \/ PageThrows'))

Answering == AnswerFullInfo \/ AnswerMintInfo
Next ==
  /\ \/ Fetch \/ Answering \/ RetryFullInfo \/ Refresh \/ RetryMintInfo
     \/ \E visible \in BOOLEAN : SetVisible(visible)
     \/ Tick
     \/ \E r \in Request : Respond(r) \/ ReadPrice(r) \/ FailPrice(r)
     \/ \E kind \in kinds(account) : Click(kind) \/ ToggleRaw(kind)
  /\ Boundary

Spec == Init /\ [][Next]_cardVars

(* Every request is answered or fails.                                     *)
Fairness ==
  /\ WF_cardVars(Fetch /\ Boundary)
  /\ WF_cardVars(AnswerFullInfo /\ Boundary)
  /\ WF_cardVars(AnswerMintInfo /\ Boundary)
  /\ \A r \in Request :
       WF_cardVars((Respond(r) \/ ReadPrice(r) \/ FailPrice(r)) /\ Boundary)

-------------------------------------------------------------------------------
(* A name is shown without a warning only if a token list vouches for it   *)
(* or the mint holds it itself (layout.tsx:307), and the pill of a verified*)
(* collection only for one that verified the token.                        *)
HeaderIsTold ==
  /\ HeaderShows.kind = "token" /\ HeaderShows.name # NoData /\ ~HeaderShows.warns =>
       \/ tokenInfo # NoData /\ tokenInfo.verified
       \/ HeaderShows.name = json /\ Field(first(account, "metadataPointer").state, "metadataAddress") = Address
  /\ HeaderShows.kind = "nft" /\ HeaderShows.verifiedCollection => account.nftData.collection.verified

(* An account of any layout has a card; of an edition no more tokens are   *)
(* told than there may be, of a native account no amount is without the    *)
(* unit, and another has the symbol of its mint.                           *)
CardIsTold ==
  LET rows == Rows(account)
      valueOf(name) == (CHOOSE row \in ToSet(rows) : row.name = name).value
      has(name) == \E row \in ToSet(rows) : row.name = name
  IN  Mounted =>
        /\ rows[1].value = Address
        /\ has("Max Total Supply") /\ has("Current Supply") =>
             valueOf("Current Supply") <= valueOf("Max Total Supply")
        /\ has("Delegated amount") =>
             /\ valueOf("Delegated amount").prefix = valueOf("Token balance").prefix
             /\ valueOf("Delegated amount").symbol = valueOf("Token balance").symbol

(* While the price is said to be loaded, and the tab is visible, a request *)
(* of the effect in force is on its way: one that is stale is not waited   *)
(* for.  A price is of a mint whose service has one, on MainnetBeta.       *)
PriceIsTold ==
  /\ coinInfo.status = "loading" /\ isTabVisible =>
       \E r \in Request : calls[r] # Idle /\ calls[r].effect = effect
  /\ coinInfo # Nothing =>
       Section(account) = "mint" /\ cluster = "MainnetBeta" /\ coinId \notin {NoData, "solana"}

(* The page of extensions has an item for every extension of the account,  *)
(* one of a kind, whose rows have every value that must be there, and none *)
(* whose value is null; shown raw it is the same extension.                *)
ExtensionsAreTold ==
  PageShows = "extensions" =>
    /\ opened # NoData => opened \in kinds(account)
    /\ \A e \in ToSet(extensions(account)) :
         LET once == Cardinality({i \in DOMAIN extensions(account) :
                                   extensions(account)[i].extension = e.extension}) = 1
             item == Item(e.extension)
             shown == {row[2] : row \in ToSet(item.rows)}
         IN  once =>
               /\ e.extension \in raw => item.raw = e.state
               /\ e.extension \notin raw =>
                    {f \in Schema[e.extension] : e.state[f] # NoData} = shown \cap Schema[e.extension]

(* What the page tells of a token is so.                                   *)
TokenIsTold == HeaderIsTold /\ CardIsTold /\ PriceIsTold /\ ExtensionsAreTold

(* A price that is loaded comes, or fails, and so does the page.           *)
PriceSettles == (coinInfo.status = "loading") ~> (coinInfo.status # "loading" \/ ~isTabVisible)
PageSettles == (PageShows = "loading") ~> (PageShows # "loading")
===============================================================================
