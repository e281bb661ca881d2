--------------------------------- MODULE Pages ---------------------------------
(* The pages over one connection that have a provider of their own, that   *)
(* of the supply, or those of a block and of an epoch; or the tabs of a    *)
(* block that is there.  A behaviour is of one of them.                    *)
EXTENDS SupplyPage, Sequences, FiniteSetsExt, TLC

CONSTANTS
  MINIMUM_SLOT_PER_EPOCH, Chains, Schedule, Window, LeaderSlots, Request,
  Epochs, Slots, MaxSlot, MaxGrowth, MaxActs,          \* see ChainPages
  TableEntries, Blocks, VOTE_PROGRAM, PAGE_SIZE, MaxBlockClicks  \* see BlockCards

VARIABLES part, chainUrl, chainStatus, clusterEpoch, chains, tip, page, cache, calls,
          pageRan, growth, acts,
          sentBlock, block, tab, params, numDisplayed, blockClicks

chainState == <<chainUrl, chainStatus, clusterEpoch, chains, tip, page, cache, calls, pageRan,
                growth, acts>>
blockState == <<sentBlock, block, tab, params, numDisplayed, blockClicks>>

-------------------------------------------------------------------------------
Chain == INSTANCE ChainPages WITH
           NoData <- None, url <- chainUrl, status <- chainStatus, ran <- pageRan

Block == INSTANCE BlockCards WITH NoData <- None, MaxClicks <- MaxBlockClicks, clicks <- blockClicks

(* Slots are numbered from zero, and of an epoch that is looked at every   *)
(* chain has a block.                                                      *)
ASSUME SlotsAssumption ==
  /\ Url # {} /\ Slots # {}
  /\ MaxSlot \in Nat /\ MaxGrowth \in 0 .. MaxSlot
  /\ MINIMUM_SLOT_PER_EPOCH \in Nat /\ Window \in Nat
  /\ Slots \subseteq 0 .. MaxSlot /\ Epochs \subseteq 0 .. MaxSlot

ASSUME ChainsAssumption ==
  \A chain \in Chains, u \in Url :
    /\ chain[u] \subseteq 0 .. MaxSlot
    /\ \A epoch \in Epochs : \E b \in chain[u] : Chain!getEpochForSlot(Schedule[u], b) = epoch

(* An epoch has begun at a slot if it is not after the epoch of the slot.  *)
ASSUME ScheduleAssumption ==
  \A u \in Url, slot \in 0 .. MaxSlot, epoch \in 0 .. MaxSlot + 1 :
    /\ Chain!getEpochForSlot(Schedule[u], slot) \in 0 .. MaxSlot
    /\ Chain!getFirstSlotInEpoch(Schedule[u], epoch) \in Nat
    /\ Chain!getFirstSlotInEpoch(Schedule[u], epoch) <= slot
         <=> epoch <= Chain!getEpochForSlot(Schedule[u], slot)

ASSUME NoDepsAssumption ==
  None \notin [page : Chain!Pages, url : Url, status : Conn!ClusterStatus]
          \cup [page : Chain!Pages, url : Url, status : Conn!ClusterStatus,
                epoch : 0 .. MaxSlot \cup {None}, absent : BOOLEAN]

-------------------------------------------------------------------------------
(* What a behaviour is not of is at rest.                                  *)
FirstUrl == CHOOSE u \in Url : TRUE

NoSupply ==
  /\ url = FirstUrl /\ status = "Failure" /\ ran = [url |-> url, status |-> status]
  /\ Supply!Init /\ RichList!Init /\ reconnects = 0 /\ clicks = 0

NoChain ==
  /\ chainUrl = FirstUrl /\ chainStatus = "Failure" /\ clusterEpoch = None
  /\ chains \in Chains /\ tip = 0
  /\ page = [kind |-> "block", key |-> CHOOSE slot \in Slots : TRUE] /\ cache = Chain!Clear(chainUrl)
  /\ calls = [r \in Request |-> Chain!Idle] /\ pageRan = Chain!deps
  /\ growth = 0 /\ acts = 0

NoBlock ==
  /\ sentBlock = <<>> /\ block = <<>> /\ tab = "transactions" /\ params = Block!NoParams
  /\ numDisplayed = PAGE_SIZE /\ blockClicks = 0

PagesInit ==
  \/ part = "chain" /\ Chain!Init /\ NoSupply /\ NoBlock
  \/ part = "supply" /\ Init /\ NoChain /\ NoBlock
  \/ part = "block" /\ Block!Init /\ NoSupply /\ NoChain

PagesNext ==
  \/ part = "chain" /\ Chain!Next /\ UNCHANGED <<part, vars, blockState>>
  \/ part = "supply" /\ Next /\ UNCHANGED <<part, chainState, blockState>>
  \/ part = "block" /\ Block!Next /\ UNCHANGED <<part, vars, chainState>>

PagesSpec ==
  PagesInit /\ [][PagesNext]_<<part, vars, chainState, blockState>> /\ Fairness /\ Chain!Fairness

PagesOfChainAreTold == Chain!EpochIsTold /\ Chain!BlockIsTold

(* What the pages of the chain tell of an epoch and of a block is so, and  *)
(* what its tabs list of the transactions of the block is.                 *)
ChainIsTold ==
  /\ PagesOfChainAreTold
  /\ part = "block" => Block!BlockIsListed

(* Whatever answers, fails or comes late, a card or page that loads comes  *)
(* to an end: the cards of the supply, and the pages of the chain.         *)
PagesSettle == SupplySettles /\ Chain!ChainPageSettles

-------------------------------------------------------------------------------
(* One cluster warms up: its epochs begin with slots 0, 2 and 6; those of  *)
(* the other have four slots each.  The window is longer than the first    *)
(* epoch and shorter than the last; slots are skipped at its borders.      *)
NormalEpochs(slots, normal, slot) ==
  [slotsPerEpoch |-> slots, firstNormalEpoch |-> normal, firstNormalSlot |-> slot]
MCSchedule == ("u1" :> NormalEpochs(8, 2, 6)) @@ ("u2" :> NormalEpochs(4, 0, 0))
MCChains == {("u1" :> {0, 1, 3, 4, 5, 6, 7, 11, 12}) @@ ("u2" :> {0, 2, 3, 5, 6, 8, 10, 12})}

(* The blocks have up to three of these transactions: one with keys of two *)
(* lookup tables, a program among them that is invoked from the other      *)
(* instruction too, that succeeds or fails without logs; one that invokes  *)
(* that program once and fees like the other; votes, with and without      *)
(* meta; and one that votes and does more.                                 *)
A(k, signer, writable) == [key |-> k, signer |-> signer, writable |-> writable]
Ix(p, accounts) == [program |-> p, accounts |-> accounts]
Transaction(payer, tables, instructions, inner) ==
  [payer |-> payer, tables |-> tables, instructions |-> instructions, inner |-> inner]
Meta(err, fee, units) == [err |-> err, fee |-> fee, units |-> units]

MCTableEntries == ("t1" :> <<"a", "sage", "c">>) @@ ("t2" :> <<"c", "d">>)
MCTransactions ==
  LET sage == Transaction("me", <<"t1", "t2">>,
                   <<Ix("p", <<A("me", TRUE, TRUE), A("c", FALSE, TRUE),
                               A("a", FALSE, FALSE), A("sage", FALSE, FALSE)>>),
                     Ix("sage", <<A("s", TRUE, FALSE), A("d", FALSE, TRUE),
                                  A("c", FALSE, FALSE), A("token", FALSE, FALSE)>>)>>,
                   <<<<"sage">>, <<"token", "sage">>>>)
      token == Transaction("me", <<"t1">>,
                    <<Ix("token", <<A("sage", FALSE, FALSE), A("a", FALSE, TRUE)>>)>>, <<<<"sage">>>>)
      vote == Transaction("v", <<>>, <<Ix("vote", <<A("a", FALSE, FALSE)>>)>>, <<<<>>>>)
      voteAnd == Transaction("v", <<>>, <<Ix("vote", <<A("a", FALSE, TRUE)>>), Ix("token", <<>>)>>,
                      <<<<>>, <<>>>>)
      Tx(sent, meta) == [sent |-> sent, meta |-> meta]
  IN  {Tx(sage, Meta(FALSE, 2, 3)), Tx(sage, Meta(TRUE, 1, None)), Tx(token, Meta(FALSE, 1, 5)),
       Tx(vote, Meta(FALSE, 1, 1)), Tx(voteAnd, Meta(TRUE, 1, 1)), Tx(vote, None)}
MCBlocks == UNION {[1 .. n -> MCTransactions] : n \in 1 .. 3}
===============================================================================
