------------------------------ MODULE AddressTabs ------------------------------
(***************************************************************************)
(* The page of an address below its header (app/address/[address]/         *)
(* layout.tsx and the pages beside it): which tabs an account has is told  *)
(* from how it was read, and by lookups of other services; each page       *)
(* checks for itself whether the account is of its kind, and sends the     *)
(* user back to the first tab if not.                                      *)
(*                                                                         *)
(* How the account is fetched is in Accounts; here the request of the page *)
(* is answered or fails, and what it reads are accounts of every kind.     *)
(* What a cluster has at the address is                                    *)
(*   [owner, parsed, known, raw, authority, metadata, feature,             *)
(*    asset, idl, ownerIdl]                                                *)
(* parsed is <<program, type>> as the RPC parses it, known whether the     *)
(* explorer recognises that layout; raw what the bytes are otherwise.      *)
(***************************************************************************)
EXTENDS Integers, SequencesExt

CONSTANTS
  Address,         \* the address of the page
  Url,             \* see Connection
  Mainnet,         \* the urls whose cluster is MainnetBeta
  NoData,
  Ledgers,         \* what the clusters may have at the address, by url
  Opened,          \* tabs the page may be opened on (a bound)
  MaxActs,         \* bound on what the user does
  MaxFailures      \* bound on requests that fail

VARIABLES
  url,             \* the url of the connection
  onChain,         \* what is at the address, by url
  cache,           \* the reducer state of AccountsProvider
  lookups,         \* the other requests and what became of them, by name
  path,            \* the tab of the url
  crashed,         \* an error was thrown that no boundary catches
  acts, failures

tabsVars == <<url, onChain, cache, lookups, path, crashed, acts, failures>>

INSTANCE FetchCache WITH Key <- {Address}

info == cache.entries[Address]

-------------------------------------------------------------------------------
(* What the explorer keeps of an account.  A program has its data read     *)
(* too, a delegated stake its activation and a mint its metadata: when one *)
(* of the first two requests fails the account is kept without any data,   *)
(* as one whose layout is unknown, and a mint without metadata.            *)
Nested == {<<"bpf-upgradeable-loader", "program">>, <<"stake", "delegated">>}

Read(account, answered) ==
  LET lost == ~account.known \/ (~answered /\ account.parsed \in Nested)
  IN  [owner |-> account.owner,
       parsed |-> IF lost THEN NoData ELSE account.parsed,
       raw |-> account.raw,
       authority |-> IF lost THEN NoData ELSE account.authority,
       nftData |-> IF lost \/ ~answered THEN "none" ELSE account.metadata,
       feature |-> account.feature]

program(a) == IF a.parsed = NoData THEN NoData ELSE a.parsed[1]
isTokenProgramData(a) == program(a) \in {"spl-token", "spl-token-2022"}
isMint(a) == isTokenProgramData(a) /\ a.parsed[2] = "mint"

isMetaplexNFT(a) == isMint(a) /\ a.nftData = "nft"
isAddressLookupTableAccount(a) == a.owner = "address-lookup-table" /\ a.raw = "table"
isNFTokenAccount(a) == a.owner = "nftoken" /\ a.raw # NoData
mayBeCompressed(a) == a.raw \in {NoData, "empty"} /\ a.parsed = NoData

-------------------------------------------------------------------------------
(* The lookups: of the asset with the id of the address, and its proof, of *)
(* the multisig that is the authority of a program, of the IDL of the      *)
(* address and of that of the owner, and of the token.                     *)
Lookup == {"asset", "proof", "squad", "idl", "ownerIdl", "tokenInfo"}

Result(name, value) ==
  IF lookups[name] = "answered" THEN value ELSE lookups[name]

asset == Result("asset", onChain[url].asset)
proof == Result("proof", "proof")
isCompressed == asset = "compressed"

(* useSquadsMultisigLookup: no request without an authority, and none but  *)
(* for the mainnet.                                                        *)
looksForSquad(a) == url \in Mainnet /\ a.authority # NoData
squadMapInfo(a) == IF looksForSquad(a) THEN Result("squad", a.authority) ELSE "none"

(* useIdlFromAnchorProgramSeed: no IDL, and none for good, when it fails.  *)
idlOf(name, value) == IF lookups[name] = "failed" THEN "none" ELSE Result(name, value)
idl == idlOf("idl", onChain[url].idl)
ownerIdl == idlOf("ownerIdl", onChain[url].ownerIdl)

isTokenInfoLoading ==
  info.status = "Fetched" /\ isTokenProgramData(info.data) /\ lookups["tokenInfo"] = NoData

-------------------------------------------------------------------------------
(* TABS_LOOKUP, by program, type and, of a mint, having metadata.          *)
Tabs(key) ==
  CASE key = <<"address-lookup-table">> -> <<"entries">>
    [] key = <<"bpf-upgradeable-loader">> -> <<"security", "verified-build">>
    [] key \in {<<"spl-token", "mint">>, <<"spl-token-2022", "mint">>} ->
         <<"transfers", "instructions">>
    [] key \in {<<"spl-token", "mint", "metaplexNFT">>, <<"spl-token-2022", "mint", "metaplexNFT">>} ->
         <<"metadata", "attributes">>
    [] key = <<"stake">> -> <<"rewards">>
    [] key = <<"sysvar", "recentBlockhashes">> -> <<"blockhashes">>
    [] key = <<"sysvar", "slotHashes">> -> <<"slot-hashes">>
    [] key = <<"sysvar", "stakeHistory">> -> <<"stake-history">>
    [] key = <<"vote">> -> <<"vote-history", "rewards">>
    [] OTHER -> <<>>

TOKEN_TABS_HIDDEN ==
  {<<"spl-token", "mint">>, <<"spl-token-2022", "mint">>, <<"config">>, <<"vote">>, <<"sysvar">>}

TabsIf(condition, tabs) == IF condition THEN tabs ELSE <<>>

metaplexTabs(a) ==
  TabsIf(isMint(a) /\ a.nftData # "none", Tabs(<<program(a), "mint", "metaplexNFT">>))

compressedTabs(a) == TabsIf(mayBeCompressed(a), <<"metadata", "attributes", "compression">>)

tokenTabs(a) ==
  TabsIf(~isNFTokenAccount(a)
           /\ (a.parsed # NoData => {<<program(a)>>, a.parsed} \cap TOKEN_TABS_HIDDEN = {}),
         <<"tokens", "domains">>)

(* In the order of the layout. *)
getTabs(a) ==
  <<"history">>
  \o TabsIf(a.parsed # NoData, Tabs(<<program(a)>>) \o Tabs(a.parsed))
  \o TabsIf(isAddressLookupTableAccount(a), Tabs(<<"address-lookup-table">>))
  \o metaplexTabs(a) \o compressedTabs(a)
  \o TabsIf(isNFTokenAccount(a) /\ a.raw = "collection", <<"nftoken-collection-nfts">>)
  \o tokenTabs(a)
  \o TabsIf(a.owner = "spl-account-compression", <<"concurrent-merkle-tree">>)

getCustomLinkedTabs(a) ==
  <<"program-multisig">>
  \o TabsIf(a.owner = "spl-token-2022", <<"token-extensions">>)
  \o <<"anchor-program", "anchor-account">>
  \o TabsIf(a.feature, <<"feature-gate">>)

(* Some links come to nothing when a lookup does. *)
isLinked(a, tab) ==
  /\ tab \in ToSet(compressedTabs(a)) => isCompressed
  /\ tab = "program-multisig" => squadMapInfo(a) = "squad"
  /\ tab = "anchor-program" => idl \in {"idl", "broken"}
  /\ tab = "anchor-account" => ownerIdl = "idl"

tabs(a) == getTabs(a) \o getCustomLinkedTabs(a)
links(a) == {tab \in ToSet(tabs(a)) : isLinked(a, tab)}

-------------------------------------------------------------------------------
(* AccountHeader; the last header asks whether there is a compressed asset. *)
Header(a) ==
  IF isMetaplexNFT(a) THEN "nft"
  ELSE IF isNFTokenAccount(a) THEN "nftoken"
  ELSE IF isMint(a) /\ ~isTokenInfoLoading THEN "token" ELSE "asset"

(* InfoSection; the last one, too. *)
Section(a) ==
  IF program(a) = "bpf-upgradeable-loader" THEN "loader"
  ELSE IF program(a) = "stake" THEN "stake"
  ELSE IF a.owner = "nftoken" THEN "nftoken"
  ELSE IF isTokenProgramData(a) THEN "token"
  ELSE IF program(a) \in {"nonce", "vote", "sysvar", "config"} THEN program(a)
  ELSE IF a.parsed = <<"address-lookup-table", "lookupTable">> \/ isAddressLookupTableAccount(a)
    THEN "table"
  ELSE IF a.feature \/ a.owner = "feature" THEN "feature" ELSE "asset"

refreshable(a) == Section(a) \notin {"feature", "asset"}

(* DetailsSections shows the section, the tabs and the page.  Its check of *)
(* the tab never runs: nothing passes it the tab.                          *)
rendered == info.status = "Fetched" /\ ~isTokenInfoLoading

-------------------------------------------------------------------------------
(* What the renderer of each page takes; any other account is not found.   *)
SecurityCardRenderer(a) == program(a) = "bpf-upgradeable-loader"
VerifiedBuildCardRenderer(a) == program(a) = "bpf-upgradeable-loader"
ProgramMultisigCardRenderer(a) == program(a) = "bpf-upgradeable-loader"
VotesCardRenderer(a) == program(a) = "vote"
BlockhashesCardRenderer(a) == a.parsed = <<"sysvar", "recentBlockhashes">>
SlotHashesCardRenderer(a) == a.parsed = <<"sysvar", "slotHashes">>
StakeHistoryCardRenderer(a) == a.parsed = <<"sysvar", "stakeHistory">>

AddressLookupTableEntriesRenderer(a) ==
  a.parsed = <<"address-lookup-table", "lookupTable">> \/ isAddressLookupTableAccount(a)

ConcurrentMerkleTreeCardRenderer(a) == a.owner = "spl-account-compression" /\ a.raw # NoData

MetaplexMetadataCard(a) == (isMint(a) /\ a.nftData # "none") \/ isCompressed
MetaplexNFTAttributesCard(a) == (isMint(a) /\ a.nftData # "none") \/ isCompressed
CompressedNFTInfoCard(a) == isCompressed /\ proof = "proof"

(* The pages that check the account. *)
Checking ==
  {"security", "verified-build", "program-multisig", "vote-history", "blockhashes", "slot-hashes",
   "stake-history", "entries", "concurrent-merkle-tree", "metadata", "attributes", "compression"}

Accepts(tab, a) ==
  CASE tab = "security" -> SecurityCardRenderer(a)
    [] tab = "verified-build" -> VerifiedBuildCardRenderer(a)
    [] tab = "program-multisig" -> ProgramMultisigCardRenderer(a)
    [] tab = "vote-history" -> VotesCardRenderer(a)
    [] tab = "blockhashes" -> BlockhashesCardRenderer(a)
    [] tab = "slot-hashes" -> SlotHashesCardRenderer(a)
    [] tab = "stake-history" -> StakeHistoryCardRenderer(a)
    [] tab = "entries" -> AddressLookupTableEntriesRenderer(a)
    [] tab = "concurrent-merkle-tree" -> ConcurrentMerkleTreeCardRenderer(a)
    [] tab = "metadata" -> MetaplexMetadataCard(a)
    [] tab = "attributes" -> MetaplexNFTAttributesCard(a)
    [] tab = "compression" -> CompressedNFTInfoCard(a)
    [] tab \notin Checking -> TRUE

(* The lookups a page waits for. *)
waitsFor(tab, a) ==
  CASE tab \in {"metadata", "attributes"} -> {"asset"}
    [] tab = "compression" -> {"asset", "proof"}
    [] tab = "program-multisig" -> {name \in {"squad"} : looksForSquad(a)}
    [] tab = "anchor-program" -> {"idl"}
    [] tab = "anchor-account" -> {"ownerIdl"}
    [] OTHER -> {}

Outcomes(tab, a) == {lookups[name] : name \in waitsFor(tab, a)}

(* What the page renders.  Only the compression page has a boundary of its *)
(* own for a lookup that fails; one of an IDL does not fail.               *)
Page(tab, a) ==
  LET failed == "failed" \in Outcomes(tab, a)
  IN  IF failed /\ tab = "compression" THEN "error"
      ELSE IF failed /\ waitsFor(tab, a) \cap {"idl", "ownerIdl"} = {} THEN "throws"
      ELSE IF NoData \in Outcomes(tab, a) THEN "loading"
      ELSE IF Accepts(tab, a) THEN "shown" ELSE "notFound"

(* No boundary is around the links and the page. *)
Throws ==
  LET a == info.data
  IN  rendered /\ \/ mayBeCompressed(a) /\ asset = "failed"
                  \/ squadMapInfo(a) = "failed"
                  \/ Page(path, a) = "throws"

(* onNotFound throws too, in the render with the cache of the other url as *)
(* well: the page decides with what that render has.                       *)
Redirects == rendered /\ ~Throws /\ Page(path, info.data) = "notFound"

(* A render that throws is not committed: what it throws is acted upon     *)
(* before an effect runs or anything else is rendered.                     *)
Committed == ~crashed /\ ~Throws /\ ~Redirects

(* The requests the rendered components have made. *)
Asked(name) ==
  LET a == info.data
  IN  CASE name = "tokenInfo" -> isTokenInfoLoading
        [] name = "asset" ->
             \/ a # NoData /\ Header(a) = "asset"
             \/ rendered /\ \/ Section(a) = "asset"
                            \/ mayBeCompressed(a)
                            \/ "asset" \in waitsFor(path, a)
        [] name = "proof" ->
             rendered /\ "proof" \in waitsFor(path, a) /\ lookups["asset"] = "answered"
        [] name = "squad" -> rendered /\ looksForSquad(a)
        [] name \in {"idl", "ownerIdl"} -> rendered

-------------------------------------------------------------------------------
Tab ==
  Checking \cup
  {"history", "transfers", "instructions", "rewards", "tokens", "domains",
   "nftoken-collection-nfts", "token-extensions", "anchor-program", "anchor-account",
   "feature-gate"}

Init ==
  /\ url \in Url /\ onChain \in Ledgers
  /\ cache = Clear(url)
  /\ lookups = [name \in Lookup |-> NoData]
  /\ path \in Opened \cap Tab
  /\ crashed = FALSE
  /\ acts = 0 /\ failures = 0

ThisUrl == ~crashed /\ cache.url = url

Ready == Committed /\ cache.url = url

(* The user switches the cluster: the page is rendered with the cache of   *)
(* the other url once, before the effect of the provider clears it.  What  *)
(* the lookups found is kept by url: all of it is there if the page was    *)
(* shown on that cluster before.                                           *)
Act == Ready /\ acts < MaxActs /\ acts' = acts + 1

Switch(u) ==
  /\ Act /\ u # url
  /\ url' = u
  /\ lookups' \in {[name \in Lookup |-> outcome] : outcome \in {NoData, "answered"}}
  /\ UNCHANGED <<onChain, cache, path, crashed, failures>>

ClearEffect ==
  /\ Committed /\ cache.url # url
  /\ cache' = Clear(url)
  /\ UNCHANGED <<url, onChain, lookups, path, crashed, acts, failures>>

Click(tab) ==
  /\ Act /\ rendered /\ tab \in links(info.data) /\ tab # path
  /\ path' = tab
  /\ UNCHANGED <<url, onChain, cache, lookups, crashed, failures>>

Update(status, data) ==
  cache' = defaultReducer(cache, url, {Address}, status, [k \in {Address} |-> data])

Fetch ==
  /\ Ready /\ info.status = "Absent"
  /\ Update("Fetching", NoData)
  /\ UNCHANGED <<url, onChain, lookups, path, crashed, acts, failures>>

(* The retry button of the page, or the refresh button of the section. *)
Refresh ==
  /\ Act
  /\ info.status = "FetchFailed" \/ (rendered /\ refreshable(info.data))
  /\ Update("Fetching", NoData)
  /\ UNCHANGED <<url, onChain, lookups, path, crashed, failures>>

mayFail(fails) == (fails => failures < MaxFailures) /\ failures' = failures + IF fails THEN 1 ELSE 0

(* The answer, perhaps without that of a nested request. *)
Answer(lost) ==
  /\ Ready /\ info.status = "Fetching" /\ mayFail(lost)
  /\ Update("Fetched", Read(onChain[url], ~lost))
  /\ UNCHANGED <<url, onChain, lookups, path, crashed, acts>>

Fail ==
  /\ Ready /\ info.status = "Fetching" /\ mayFail(TRUE)
  /\ Update("FetchFailed", NoData)
  /\ UNCHANGED <<url, onChain, lookups, path, crashed, acts>>

Settle(name, fails) ==
  /\ Ready /\ lookups[name] = NoData /\ Asked(name) /\ mayFail(fails)
  /\ lookups' = [lookups EXCEPT ![name] = IF fails THEN "failed" ELSE "answered"]
  /\ UNCHANGED <<url, onChain, cache, path, crashed, acts>>

(* SWR asks for the token again, which takes the page away meanwhile. *)
RetryTokenInfo ==
  /\ Ready /\ rendered /\ lookups["tokenInfo"] = "failed"
  /\ lookups' = [lookups EXCEPT !["tokenInfo"] = NoData]
  /\ UNCHANGED <<url, onChain, cache, path, crashed, acts, failures>>

(* Mutant: a page does not wait for its lookups before it gives up.        *)
RedirectHasty ==
  /\ ~crashed /\ ~Throws /\ rendered /\ Page(path, info.data) \in {"loading", "notFound"}
  /\ path' = "history"
  /\ UNCHANGED <<url, onChain, cache, lookups, crashed, acts, failures>>

Redirect ==
  /\ ~crashed /\ Redirects
  /\ path' = "history"
  /\ UNCHANGED <<url, onChain, cache, lookups, crashed, acts, failures>>

Crash ==
  /\ ~crashed /\ Throws
  /\ crashed' = TRUE
  /\ UNCHANGED <<url, onChain, cache, lookups, path, acts, failures>>

Next ==
  \/ \E u \in Url : Switch(u)
  \/ ClearEffect \/ Fetch \/ Refresh \/ Fail \/ RetryTokenInfo \/ Redirect \/ Crash
  \/ \E tab \in Tab : Click(tab)
  \/ \E fails \in BOOLEAN : Answer(fails) \/ \E name \in Lookup : Settle(name, fails)

(* Effects are flushed, requests settle, and what a render throws is acted *)
(* upon.  Nothing makes the user act.                                      *)
Fairness ==
  /\ WF_tabsVars(ClearEffect) /\ WF_tabsVars(Fetch)
  /\ WF_tabsVars(Fail \/ \E lost \in BOOLEAN : Answer(lost))
  /\ \A name \in Lookup : WF_tabsVars(\E fails \in BOOLEAN : Settle(name, fails))
  /\ WF_tabsVars(RetryTokenInfo) /\ WF_tabsVars(Redirect) /\ WF_tabsVars(Crash)

-------------------------------------------------------------------------------
(* An account of this tab the page of which finds nothing to show: a table *)
(* that is not initialized yet.                                            *)
Uninitialized(a) == a.parsed = <<"address-lookup-table", "uninitialized">>

(* The tabs of the layout and the checks of the pages, which are written   *)
(* down apart, agree on every account, as do the header and the section:   *)
(* no link leads to a page that sends the user away, no tab is there       *)
(* twice, and a page that checks its account and shows it has its tab.     *)
TabsMatchPages ==
  ThisUrl /\ rendered =>
    LET a == info.data
    IN  /\ IsInjective(tabs(a))
        /\ \A tab \in links(a) :
             Page(tab, a) = "notFound" => tab = "entries" /\ Uninitialized(a)
        /\ \A tab \in Checking \ {"program-multisig"} : Page(tab, a) = "shown" => tab \in links(a)
        /\ Header(a) = "nftoken" <=> Section(a) = "nftoken"
        /\ Header(a) \in {"nft", "token"} => Section(a) = "token"

(* The tabs the account at u really has that may send the user away. *)
TabsOf(u) ==
  LET a == Read(onChain[u], TRUE)
  IN  {tab \in ToSet(getTabs(a)) :
         tab \in ToSet(compressedTabs(a)) => onChain[u].asset = "compressed"}
      \cup {tab \in {"program-multisig"} : u \in Mainnet /\ a.authority = "squad"}

(* The account of this url was read without the data of a nested request.  *)
Lost == cache.url = url /\ info.data # Read(onChain[url], TRUE)

(* The render with the cache of the other url comes to a decision that the *)
(* page on that url had not come to: its other lookups, which are asked    *)
(* for by url, were answered for the new url before.  That goes for the    *)
(* pages that wait for the asset of an account without metadata, and for a *)
(* token, the page of which is away while the token is looked up.          *)
DecidesAnew ==
  cache.url # url /\ (path \in {"metadata", "attributes"} \/ isTokenProgramData(info.data))

(* The url of a page is only ever given up when the account does not have  *)
(* that page (ParsedAccountRenderer.tsx), whichever order the account and  *)
(* the lookups arrive in, and also in the render right after a switch of   *)
(* the cluster, which still has the account of the other cluster.  The     *)
(* code does give up a page the account has in two cases, those of Lost    *)
(* and of DecidesAnew.                                                     *)
KeepsPage ==
  path' # path /\ acts' = acts =>
    \/ path \notin TabsOf(url)
    \/ path = "entries" /\ Uninitialized(Read(onChain[url], TRUE))
    \/ Lost \/ DecidesAnew

AtRest ==
  \/ crashed
  \/ /\ ThisUrl /\ info.status \in {"Fetched", "FetchFailed"}
     /\ info.status = "Fetched" => rendered /\ Page(path, info.data) \in {"shown", "error"}

(* The page ends up showing what it has, the failure of its request or of  *)
(* a lookup: no chain of requests, redirects and retries goes on for ever. *)
PageComesToRest == <>[]AtRest
===============================================================================
