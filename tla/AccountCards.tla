------------------------------ MODULE AccountCards -----------------------------
(* What cards of the page of an address tell: the rewards by epoch, how    *)
(* much of a stake account is active, or of a program its verified build,  *)
(* its multisig and its security.txt.  A behaviour is of one of them.      *)
EXTENDS Rewards, TLC

CONSTANTS
  Stakes, Others, RateNum, RateDen, Reserve, MaxStakeEpoch,      \* see StakeActivation
  Mainnet, Programs, TRUSTED_SIGNERS, Answers, VerifierIdl, squadOf, isValidLink,
  MaxActs                                                        \* see ProgramCards

VARIABLES part, stakeEpoch, account, effective, history,
          programUrl, onChain, programData, osec, registry, verifier, pdas, squads, page, broken,
          compared, acts

stakeState == <<stakeEpoch, account, effective, history>>
programState == <<programUrl, onChain, programData, osec, registry, verifier, pdas, squads, page,
                  broken, compared, acts>>

Stake == INSTANCE StakeActivation WITH epoch <- stakeEpoch, MaxEpoch <- MaxStakeEpoch

Program == INSTANCE ProgramCards WITH url <- programUrl

(* Signers, multisigs and what is told are something, and an entry of the  *)
(* registry is verified or not.                                            *)
ASSUME ProgramsAssumption ==
  /\ TRUSTED_SIGNERS \in Seq(ToSet(TRUSTED_SIGNERS)) /\ NoData \notin ToSet(TRUSTED_SIGNERS)
  /\ NoData \notin Programs
  /\ \A a \in DOMAIN squadOf : squadOf[a].multisig # NoData
  /\ \A entries \in Answers : \A e \in entries :
       /\ e = [signer |-> e.signer, is_verified |-> e.is_verified, on_chain_hash |-> e.on_chain_hash]
       /\ e.is_verified \in BOOLEAN
  /\ NoData \notin [signer : Program!Signer, repo : Program!Signer \X Url,
                    message : {"trusted", "authority"}]

-------------------------------------------------------------------------------
(* What a behaviour is not of is at rest.                                  *)
FirstUrl == CHOOSE u \in Url : TRUE

NoRewards ==
  /\ url = FirstUrl /\ cache = Clear(url) /\ open = FALSE /\ calls = [r \in Request |-> Idle]
  /\ epoch = 0 /\ deactivated = NoData /\ nulls = {} /\ old = {} /\ late = FALSE
  /\ newEpochs = 0 /\ switches = 0 /\ requests = 0

NoStake == stakeEpoch = 0 /\ account = NoData /\ effective = 0 /\ history = <<>>

NoProgram ==
  /\ programUrl = FirstUrl /\ onChain = [u \in Url |-> NoData] /\ programData = NoData
  /\ osec = Program!NoArray
  /\ registry = Program!Unasked /\ verifier = [u \in Url |-> Program!Unasked]
  /\ pdas = [s \in Program!Signer |-> Program!Unasked] /\ squads = <<>>
  /\ page = "history" /\ broken = FALSE /\ compared = {} /\ acts = 0

CardsInit ==
  \/ part = "rewards" /\ Init /\ NoStake /\ NoProgram
  \/ part = "stake" /\ NoRewards /\ Stake!Init /\ NoProgram
  \/ part = "program" /\ NoRewards /\ NoStake /\ Program!Init

CardsNext ==
  \/ part = "rewards" /\ Next /\ UNCHANGED <<part, stakeState, programState>>
  \/ part = "stake" /\ Stake!Next /\ UNCHANGED <<part, vars, programState>>
  \/ part = "program" /\ Program!Next /\ UNCHANGED <<part, vars, stakeState>>

CardsSpec == CardsInit /\ [][CardsNext]_<<part, vars, stakeState, programState>>
          /\ Fairness /\ Program!Fairness

StakeIsTold == Stake!StakeIsTold
ProgramIsTold == part = "program" => Program!ProgramIsTold

(* Rewards that load and a card that waits come to show something.         *)
CardsSettle == RewardsSettle /\ Program!BuildSettles

-------------------------------------------------------------------------------
MCLowestAvailable == ("u1" :> 0) @@ ("u2" :> 1)

MCOthers ==
  {[effective |-> o[1], activating |-> o[2], deactivating |-> o[3]]
   : o \in {<<0, 0, 0>>, <<10, 0, 3>>, <<10, 3, 0>>, <<4, 3, 3>>}}

(* A program of a multisig and of a developer, upgraded, or for good; its  *)
(* security.txt whole, with a key written twice, padded, without a policy, *)
(* or cut; and registries in which of several uploaders some are right.    *)
Fields(name, rest) ==
  [header |-> TRUE, footer |-> TRUE, padding |-> 0,
   pairs |-> <<<<"name", name>>, <<"project_url", "https://play">>, <<"contacts", "email:a">>>> \o rest]

MCTxts ==
  LET Policy == <<"policy", "https://policy">>
  IN  [whole |-> Fields("sage", <<Policy, <<"name", "other">>, <<"color", "blue">>, <<"auditors", "">>>>),
       partial |-> Fields("sage", <<<<"expiry", "never">>>>),
       padded |-> [Fields("sage", <<<<"encryption", "key">>, Policy>>) EXCEPT !.padding = 2],
       cut |-> [Fields("sage", <<Policy>>) EXCEPT !.footer = FALSE]]

MCPrograms ==
  {[authority |-> p[1], hash |-> p[2], txt |-> MCTxts[p[3]]] :
   p \in {<<"dao", "h1", "whole">>, <<"dev", "h2", "padded">>, <<"dao", "h2", "partial">>,
           <<NoData, "h1", "cut">>}}

MCAnswers ==
  LET E(s, v, h) == [signer |-> s, is_verified |-> v, on_chain_hash |-> h]
  IN  {{},
       {E("dao", TRUE, "h1"), E("osec", TRUE, "h1")},
       {E("dao", FALSE, "h1"), E("osec", TRUE, "h2"), E("dev", TRUE, "h2")},
       {E("explorer", TRUE, "h1"), E("osec", TRUE, "h2"), E("dev", TRUE, "h1")}}

MCTrustedSigners == <<"osec", "explorer">>
MCSquadOf == [dao |-> [version |-> "v4", multisig |-> "m"]]
MCIsValidLink == ("https://play" :> TRUE) @@ ("https://policy" :> TRUE) @@ ("key" :> FALSE)
===============================================================================
