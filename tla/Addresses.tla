------------------------------- MODULE Addresses -------------------------------
(* The accounts of two addresses: a batch is smaller than what a call may  *)
(* ask for, so that calls take several round trips, and two calls overlap. *)
(* Or the tabs of one address, which may have an account of any kind on    *)
(* the one cluster and has none, the same or another one on the other.     *)
EXTENDS Accounts, Sequences

CONSTANTS
  Mainnet, Ledgers, Opened, MaxActs, MaxFailures \* see AddressTabs

VARIABLES part, tabsUrl, onChain, tabsCache, lookups, path, crashed, acts, failures

tabsState == <<tabsUrl, onChain, tabsCache, lookups, path, crashed, acts, failures>>

Tabs == INSTANCE AddressTabs WITH Address <- Shown, url <- tabsUrl, cache <- tabsCache

(* What the RPC parses it names by the program; of any other account the   *)
(* bytes are read, and the accounts of these programs it does not parse.   *)
(* Only a program has an authority, and nothing is at the address of a     *)
(* compressed asset.                                                       *)
NeverParsed == {"nftoken", "spl-account-compression"}

ASSUME LedgersAssumption ==
  \A ledger \in Ledgers, u \in Url :
    LET a == ledger[u]
    IN  /\ a.parsed = NoData <=> a.raw # NoData
        /\ a.parsed # NoData =>
             /\ a.parsed = <<a.parsed[1], a.parsed[2]>>
             /\ a.owner \notin NeverParsed
             /\ a.parsed[1] = "address-lookup-table" => a.parsed[2] \in {"lookupTable", "uninitialized"}
        /\ a.authority # NoData => a.parsed # NoData /\ a.parsed[1] = "bpf-upgradeable-loader"
        /\ a.asset = "compressed" => a.raw = "empty"

ASSUME NoDataIsNoText ==
  /\ NoData \notin {"address-lookup-table", "bpf-upgradeable-loader", "config", "nonce", "spl-token",
                    "spl-token-2022", "stake", "sysvar", "vote", "table", "empty", "collection",
                    "answered", "failed", "proof", "compressed", "squad", "idl", "broken"}
  /\ NoData \notin {"sysvar"} \X {"recentBlockhashes", "slotHashes", "stakeHistory"}
  /\ NoData # <<"address-lookup-table", "lookupTable">>
  /\ \A ledger \in Ledgers, u \in Url, answered \in BOOLEAN : NoData # Tabs!Read(ledger[u], answered)

-------------------------------------------------------------------------------
(* An address with no account.                                             *)
Missing == [owner |-> "system", parsed |-> NoData, known |-> TRUE, raw |-> "empty",
            authority |-> NoData, metadata |-> "none", feature |-> FALSE,
            asset |-> "none", idl |-> "none", ownerIdl |-> "none"]

(* What a behaviour is not of is at rest.                                  *)
NoTabs ==
  /\ tabsUrl = (CHOOSE u \in Url : TRUE) /\ onChain = [u \in Url |-> Missing]
  /\ tabsCache = Tabs!Clear(tabsUrl) /\ lookups = <<>> /\ path = "history"
  /\ crashed = TRUE /\ acts = 0 /\ failures = 0

NoAccounts ==
  /\ url = (CHOOSE u \in Url : TRUE) /\ status = "Failure"
  /\ ran = [url |-> url, status |-> status] /\ unseen = FALSE
  /\ cache = Clear(url) /\ fetchers = newFetchers(url) /\ retired = {}
  /\ calls = [c \in Call |-> Idle] /\ reconnects = 0 /\ requests = 0

AddressesInit ==
  \/ part = "accounts" /\ Init /\ NoTabs
  \/ part = "tabs" /\ Tabs!Init /\ NoAccounts

AddressesNext ==
  \/ part = "accounts" /\ Next /\ UNCHANGED <<part, tabsState>>
  \/ part = "tabs" /\ Tabs!Next /\ UNCHANGED <<part, vars>>

AddressesSpec == AddressesInit /\ [][AddressesNext]_<<part, vars, tabsState>> /\ Fairness /\ Tabs!Fairness

(* What the page of an address tells is told alike in all its parts, and   *)
(* no user is sent away from a page the account has (AddressTabs).         *)
AddressIsTold == []Tabs!TabsMatchPages /\ [][Tabs!KeepsPage]_<<part, vars, tabsState>>

(* The page of an address neither loads for ever (Accounts), nor goes on   *)
(* asking and redirecting for ever (AddressTabs).                          *)
AddressSettles == PageSettles /\ Tabs!PageComesToRest

-------------------------------------------------------------------------------
Parsed(prog, type) == [Missing EXCEPT !.owner = prog, !.parsed = <<prog, type>>, !.raw = NoData]
Raw(owner, raw) == [Missing EXCEPT !.owner = owner, !.raw = raw]

Kinds ==
  {Missing, Raw("anchor", "bytes"), Raw("spl-account-compression", "bytes")}
  \cup {[Missing EXCEPT !.asset = kind] : kind \in {"compressed", "plain"}}
  \cup {[Raw("anchor", "bytes") EXCEPT !.ownerIdl = kind] : kind \in {"idl", "broken"}}
  \cup {Raw("nftoken", raw) : raw \in {"nft", "collection", "bytes"}}
  \cup {Raw("address-lookup-table", raw) : raw \in {"table", "bytes"}}
  \cup {[Raw(owner, "bytes") EXCEPT !.feature = listed] :
          owner \in {"feature", "system"}, listed \in BOOLEAN}
  \cup {Parsed("address-lookup-table", type) : type \in {"lookupTable", "uninitialized"}}
  \cup {Parsed("sysvar", type) : type \in {"recentBlockhashes", "slotHashes", "stakeHistory", "rent"}}
  \cup {Parsed("stake", type) : type \in {"delegated", "initialized"}}
  \cup {Parsed("vote", "vote"), [Parsed("nonce", "initialized") EXCEPT !.owner = "system"], Parsed("config", "stakeConfig")}
  \cup {[Parsed("vote", "vote") EXCEPT !.known = FALSE]}
  \cup {Parsed("spl-token-2022", type) : type \in {"mint", "account"}}
  \cup {Parsed("spl-token", type) : type \in {"account", "multisig"}}
  \cup {[Parsed("spl-token", "mint") EXCEPT !.metadata = kind] :
          kind \in {"none", "fungible", "nft"}}
  \cup {[Parsed("bpf-upgradeable-loader", "program") EXCEPT !.authority = who, !.idl = "idl"] :
          who \in {"squad", "wallet", NoData}}
  \cup {Parsed("bpf-upgradeable-loader", "buffer")}

SquadProgram ==
  [Parsed("bpf-upgradeable-loader", "program") EXCEPT !.authority = "squad", !.idl = "idl"]
NFT == [Parsed("spl-token", "mint") EXCEPT !.metadata = "nft"]
Compressed == [Missing EXCEPT !.asset = "compressed"]

(* The account is on one cluster, on both, or is another one on the other. *)
On(main, other) == [u \in Url |-> IF u \in Mainnet THEN main ELSE other]

MCLedgers ==
  {On(kind, Missing) : kind \in Kinds} \cup {On(kind, kind) : kind \in {SquadProgram, Parsed("vote", "vote")}}
  \cup {On(NFT, Compressed), On(SquadProgram, NFT)}

(* The first tab, and of the pages that check the account alike or wait    *)
(* for the same lookups one each.  (That pages and tabs agree is checked   *)
(* of all pages, whichever is open.)                                       *)
MCOpened ==
  {"history", "entries", "concurrent-merkle-tree", "security", "vote-history", "blockhashes",
   "metadata", "compression", "program-multisig", "anchor-program", "anchor-account"}

================================================================================
