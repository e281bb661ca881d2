---------------------------- MODULE InstructionCards ----------------------------
(***************************************************************************)
(* The cards of the instructions of a transaction: on its page             *)
(* (app/components/transaction/InstructionsSection.tsx, the cards of       *)
(* app/components/instruction), and in the inspector                       *)
(* (app/components/inspector).                                             *)
(*                                                                         *)
(* An instruction is a record: program, a name for its program id; keys,   *)
(* its accounts; type, NoData unless the node has parsed it; info, what    *)
(* the node then says, by field; data, the variant its bytes stand for;    *)
(* decodes, whether a card that reads the bytes itself can; mint, the      *)
(* token it is about.  A value of info is what it says of the field, and   *)
(* Bad when it has the wrong type.                                         *)
(*                                                                         *)
(* The cards whose program the node does not parse are only told from the  *)
(* unknown card here; StarFrame.tla is about what one of them says.        *)
(***************************************************************************)
EXTENDS Integers, Sequences, SequencesExt, FiniteSets

CONSTANTS
  NoData,
  Transactions,       \* [instructions, inner, err, accountKeys, cluster, slot]
  INNER_INSTRUCTIONS_START_SLOT,
  MintOf,             \* the mint of each token account, NoData once closed
  DecimalsOf          \* the decimals of each mint

VARIABLES
  transaction,        \* the transaction whose page is shown
  details,            \* whether its details have arrived
  idls,               \* what is known of the IDL of each program that may have one
  known,              \* the token accounts and mints fetched
  raw,                \* the raw transaction: whether it is asked for, and the
                      \* keys of its instructions
  showRaw,            \* the cards switched to their raw view
  hash,               \* the card the url names, or NoData
  scroll              \* scrollEnabled, and the cards scrolled to

Bad == "bad"
Zero == "zero"

-------------------------------------------------------------------------------
(* superstruct's type(...): the fields that must be there and those that   *)
(* may, and `create`, which throws on any other info.                      *)
Info(required, optional) == [required |-> required, optional |-> optional]
Exactly(required) == Info(required, {})

accepts(struct, info) ==
  /\ struct.required \subseteq DOMAIN info
  /\ \A f \in DOMAIN info \cap (struct.required \cup struct.optional) : info[f] # Bad

(* A card: its rows, what it tells with the name it tells it under.        *)
Details(rows) == [kind |-> "details", rows |-> rows, decimals |-> NoData]
Unknown == [kind |-> "unknown", rows |-> <<>>, decimals |-> NoData]
Threw == [Unknown EXCEPT !.kind = "threw"]
Error == [Unknown EXCEPT !.kind = "error"]

Row(field, value) == [field |-> field, value |-> value]

rowsOf(fields, info) == [n \in DOMAIN fields |-> Row(fields[n], info[fields[n]])]

(* The switch of a card on the type of an instruction: the info of the     *)
(* type is checked, and shown in the rows of the type's card.  What has    *)
(* no card or fails the check is shown by the unknown card.                *)
Switch(structs, cards, ix) ==
  IF ix.type \in DOMAIN cards /\ accepts(structs[ix.type], ix.info)
    THEN Details(rowsOf(cards[ix.type], ix.info)) ELSE Unknown

(* The cards that loop over what the node says.                            *)
SwitchAll(structs, ix) ==
  IF ix.type \in DOMAIN structs /\ accepts(structs[ix.type], ix.info)
    THEN Details([f \in DOMAIN ix.info |-> Row(f, ix.info[f])]) ELSE Unknown

-------------------------------------------------------------------------------
(* The system program.                                                     *)
SystemInfo ==
  [createAccount         |-> Exactly({"lamports", "newAccount", "owner", "source", "space"}),
   assign                |-> Exactly({"account", "owner"}),
   transfer              |-> Exactly({"destination", "lamports", "source"}),
   createAccountWithSeed |-> Exactly({"base", "lamports", "newAccount", "owner", "seed", "source", "space"}),
   advanceNonce          |-> Exactly({"nonceAccount", "nonceAuthority"}),
   withdrawNonce         |-> Exactly({"destination", "lamports", "nonceAccount", "nonceAuthority"}),
   initializeNonce       |-> Exactly({"nonceAccount", "nonceAuthority"}),
   authorizeNonce        |-> Exactly({"newAuthorized", "nonceAccount", "nonceAuthority"}),
   allocate              |-> Exactly({"account", "space"}),
   allocateWithSeed      |-> Exactly({"account", "base", "owner", "seed", "space"}),
   assignWithSeed        |-> Exactly({"account", "base", "owner", "seed"}),
   transferWithSeed      |-> Exactly({"destination", "lamports", "source", "sourceBase", "sourceOwner", "sourceSeed"}),
   upgradeNonce          |-> Exactly({"nonceAccount"})]

CreateDetailsCard           == <<"source", "newAccount", "lamports", "space", "owner">>
CreateWithSeedDetailsCard   == <<"source", "newAccount", "base", "seed", "lamports", "space", "owner">>
AllocateDetailsCard         == <<"account", "space">>
AllocateWithSeedDetailsCard == <<"account", "base", "seed", "space", "owner">>
AssignDetailsCard           == <<"account", "owner">>
AssignWithSeedDetailsCard   == <<"account", "base", "seed", "owner">>
TransferDetailsCard         == <<"source", "destination", "lamports">>
NonceAdvanceDetailsCard     == <<"nonceAccount", "nonceAuthority">>
NonceWithdrawDetailsCard    == <<"nonceAccount", "nonceAuthority", "destination", "lamports">>
NonceAuthorizeDetailsCard   == <<"nonceAccount", "nonceAuthority", "newAuthorized">>
NonceInitializeDetailsCard  == <<"nonceAccount", "nonceAuthority">>
TransferWithSeedDetailsCard == <<"source", "destination", "sourceBase", "lamports", "sourceSeed", "sourceOwner">>
UpgradeNonceDetailsCard     == <<"nonceAccount">>

SystemDetailsCard(ix) ==
  Switch(SystemInfo,
         [createAccount |-> CreateDetailsCard, createAccountWithSeed |-> CreateWithSeedDetailsCard,
          allocate |-> AllocateDetailsCard, allocateWithSeed |-> AllocateWithSeedDetailsCard,
          assign |-> AssignDetailsCard, assignWithSeed |-> AssignWithSeedDetailsCard,
          transfer |-> TransferDetailsCard, advanceNonce |-> NonceAdvanceDetailsCard,
          withdrawNonce |-> NonceWithdrawDetailsCard, authorizeNonce |-> NonceAuthorizeDetailsCard,
          initializeNonce |-> NonceInitializeDetailsCard,
          transferWithSeed |-> TransferWithSeedDetailsCard, upgradeNonce |-> UpgradeNonceDetailsCard], ix)

(* The stake program.  staker and withdrawer are authorized's, and epoch,  *)
(* unixTimestamp and custodian lockup's.                                   *)
StakeInfo ==
  [initialize |-> Exactly({"staker", "withdrawer", "custodian", "epoch", "unixTimestamp", "stakeAccount"}),
   delegate   |-> Exactly({"stakeAccount", "stakeAuthority", "voteAccount"}),
   authorize  |-> Exactly({"authority", "authorityType", "newAuthority", "stakeAccount"}),
   split      |-> Exactly({"lamports", "newSplitAccount", "stakeAccount", "stakeAuthority"}),
   withdraw   |-> Exactly({"destination", "lamports", "stakeAccount", "withdrawAuthority"}),
   deactivate |-> Exactly({"stakeAccount", "stakeAuthority"}),
   merge      |-> Exactly({"clockSysvar", "destination", "source", "stakeAuthority", "stakeHistorySysvar"})]

(* A lockup that has no epoch, time or custodian is not told.              *)
InitializeDetailsCard(info) ==
  SelectSeq(<<"stakeAccount", "staker", "withdrawer", "epoch", "unixTimestamp", "custodian">>,
            LAMBDA f : f \in {"epoch", "unixTimestamp", "custodian"} \cap DOMAIN info => info[f] # Zero)
DelegateDetailsCard   == <<"stakeAccount", "voteAccount", "stakeAuthority">>
AuthorizeDetailsCard  == <<"stakeAccount", "authority", "newAuthority", "authorityType">>
SplitDetailsCard      == <<"stakeAccount", "stakeAuthority", "newSplitAccount", "lamports">>
WithdrawDetailsCard   == <<"stakeAccount", "withdrawAuthority", "destination", "lamports">>
DeactivateDetailsCard == <<"stakeAccount", "stakeAuthority">>
MergeDetailsCard      == <<"source", "destination", "stakeAuthority", "clockSysvar", "stakeHistorySysvar">>

StakeDetailsCard(ix) ==
  Switch(StakeInfo,
         [initialize |-> InitializeDetailsCard(ix.info), delegate |-> DelegateDetailsCard,
          authorize |-> AuthorizeDetailsCard, split |-> SplitDetailsCard, withdraw |-> WithdrawDetailsCard,
          deactivate |-> DeactivateDetailsCard, merge |-> MergeDetailsCard], ix)

(* The vote program: its initialize has no card.  The fields of vote are   *)
(* told in rows of their own, its timestamp unless it is zero.             *)
VoteInfo ==
  [vote             |-> Info({"clockSysvar", "slotHashesSysvar", "vote.hash", "vote.slots", "voteAccount",
                              "voteAuthority"}, {"vote.timestamp"}),
   authorize        |-> Exactly({"authority", "authorityType", "clockSysvar", "newAuthority", "voteAccount"}),
   withdraw         |-> Exactly({"destination", "lamports", "voteAccount", "withdrawAuthority"}),
   updateValidator  |-> Exactly({"newValidatorIdentity", "voteAccount", "withdrawAuthority"}),
   updateCommission |-> Exactly({"commission", "voteAccount", "withdrawAuthority"}),
   voteSwitch       |-> Exactly({"clockSysvar", "hash", "slotHashesSysvar", "vote.hash", "vote.slots",
                                 "vote.timestamp", "voteAccount", "voteAuthority"})]

VoteDetailsCard(ix) ==
  LET card == SwitchAll(VoteInfo, ix)
  IN  [card EXCEPT !.rows = [f \in {g \in DOMAIN @ : @[g] # Row("vote.timestamp", Zero)} |-> @[f]]]

(* The loaders.                                                            *)
BpfLoaderInfo == [write |-> Exactly({"account", "bytes", "offset"}), finalize |-> Exactly({"account"})]

BpfLoaderWriteDetailsCard    == <<"account", "bytes", "offset">>
BpfLoaderFinalizeDetailsCard == <<"account">>

BpfLoaderDetailsCard(ix) ==
  Switch(BpfLoaderInfo,
         [write |-> BpfLoaderWriteDetailsCard, finalize |-> BpfLoaderFinalizeDetailsCard], ix)

BpfUpgradeableLoaderInfo ==
  [initializeBuffer     |-> Exactly({"account", "authority"}),
   write                |-> Exactly({"account", "authority", "bytes", "offset"}),
   deployWithMaxDataLen |-> Exactly({"authority", "bufferAccount", "clockSysvar", "maxDataLen", "payerAccount",
                                     "programAccount", "programDataAccount", "rentSysvar", "systemProgram"}),
   upgrade              |-> Exactly({"authority", "bufferAccount", "clockSysvar", "programAccount",
                                     "programDataAccount", "rentSysvar", "spillAccount"}),
   setAuthority         |-> Info({"account", "authority"}, {"newAuthority"}),
   close                |-> Info({"account", "authority", "recipient"}, {"programAccount"}),
   extendProgram        |-> Info({"additionalBytes", "programAccount", "programDataAccount"},
                                 {"payerAccount", "systemProgram"})]

BpfUpgradeableLoaderDetailsCard(ix) == SwitchAll(BpfUpgradeableLoaderInfo, ix)

(* Address lookup tables.  The info is checked against a union: that of    *)
(* any of the types will do, and a row of a field that is then missing     *)
(* throws as it is drawn.                                                  *)
LookupTableInfo ==
  LET Both == {"lookupTableAccount", "lookupTableAuthority"}
  IN  [createLookupTable     |-> Exactly(Both \cup {"bumpSeed", "payerAccount", "recentSlot", "systemProgram"}),
       freezeLookupTable     |-> Exactly(Both),
       extendLookupTable     |-> Exactly(Both \cup {"newAddresses"}),
       deactivateLookupTable |-> Exactly(Both),
       closeLookupTable      |-> Exactly(Both \cup {"recipient"})]

CreateLookupTableDetailsCard ==
  <<"lookupTableAccount", "lookupTableAuthority", "payerAccount", "recentSlot", "bumpSeed">>
ExtendLookupTableDetailsCard == <<"lookupTableAccount", "lookupTableAuthority", "newAddresses">>
FreezeLookupTableDetailsCard == <<"lookupTableAccount", "lookupTableAuthority">>
DeactivateLookupTableDetailsCard == <<"lookupTableAccount", "lookupTableAuthority">>
CloseLookupTableDetailsCard == <<"lookupTableAccount", "lookupTableAuthority">>

AddressLookupTableDetailsCard(ix) ==
  LET cards == [createLookupTable |-> CreateLookupTableDetailsCard,
                extendLookupTable |-> ExtendLookupTableDetailsCard,
                freezeLookupTable |-> FreezeLookupTableDetailsCard,
                deactivateLookupTable |-> DeactivateLookupTableDetailsCard,
                closeLookupTable |-> CloseLookupTableDetailsCard]
  IN  IF \/ ix.type \notin DOMAIN cards
         \/ \A t \in DOMAIN LookupTableInfo : ~accepts(LookupTableInfo[t], ix.info)
        THEN Unknown
      ELSE IF ToSet(cards[ix.type]) \subseteq DOMAIN ix.info
        THEN Details(rowsOf(cards[ix.type], ix.info)) ELSE Threw

MemoDetailsCard(ix) == Details(<<Row("parsed", ix.info.parsed)>>)

-------------------------------------------------------------------------------
(* Associated token accounts: what the node says of the accounts of an     *)
(* instruction (on the page of a transaction), and where they are among    *)
(* its keys (in the inspector, which has no node to ask).                  *)
AssociatedTokenInfo ==
  [createIdempotent |-> Exactly({"account", "mint", "source", "systemProgram", "tokenProgram", "wallet"}),
   recoverNested    |-> Exactly({"destination", "nestedMint", "nestedOwner", "nestedSource", "ownerMint",
                                 "tokenProgram", "wallet"})]

AssociatedCreateDetailsCard == <<"source", "account", "mint", "wallet", "systemProgram", "tokenProgram">>
AssociatedCreateIdempotentDetailsCard ==
  <<"source", "account", "wallet", "mint", "systemProgram", "tokenProgram">>
AssociatedRecoverNestedDetailsCard ==
  <<"destination", "nestedMint", "nestedOwner", "nestedSource", "ownerMint", "wallet", "tokenProgram">>

(* The info of a create is not checked: new PublicKey(undefined) throws.   *)
AssociatedTokenDetailsCard(ix) ==
  IF ix.type # "create"
    THEN Switch(AssociatedTokenInfo,
                [createIdempotent |-> AssociatedCreateIdempotentDetailsCard,
                 recoverNested |-> AssociatedRecoverNestedDetailsCard], ix)
  ELSE IF ToSet(AssociatedCreateDetailsCard) \subseteq DOMAIN ix.info
    THEN Details(rowsOf(AssociatedCreateDetailsCard, ix.info)) ELSE Threw

InspectorCreateDetailsCard(keys) ==
  <<Row("source", keys[1]), Row("account", keys[2]), Row("mint", keys[4]), Row("wallet", keys[3]),
    Row("systemProgram", keys[5]), Row("tokenProgram", keys[6])>>

InspectorCreateIdempotentDetailsCard(keys) ==
  <<Row("source", keys[1]), Row("account", keys[2]), Row("wallet", keys[3]), Row("mint", keys[4]),
    Row("systemProgram", keys[5]), Row("tokenProgram", keys[6])>>

InspectorRecoverNestedDetailsCard(keys) ==
  <<Row("destination", keys[3]), Row("nestedMint", keys[2]), Row("nestedOwner", keys[4]),
    Row("nestedSource", keys[1]), Row("ownerMint", keys[5]), Row("wallet", keys[6]),
    Row("tokenProgram", keys[7])>>

(* identifyAssociatedTokenInstruction and the parsers: the type the bytes  *)
(* stand for, none of them meaning create, if there are keys enough.       *)
AssociatedTokenData == [empty |-> "create", create |-> "create", createIdempotent |-> "createIdempotent",
                        recoverNested |-> "recoverNested"]
KeysNeeded == [create |-> 6, createIdempotent |-> 6, recoverNested |-> 7]

(* The type, or NoData when it throws.                                     *)
intoParsedData(ix) ==
  IF /\ ix.data \in DOMAIN AssociatedTokenData
     /\ Len(ix.keys) >= KeysNeeded[AssociatedTokenData[ix.data]]
    THEN AssociatedTokenData[ix.data] ELSE NoData

InspectorAssociatedTokenDetailsCard(ix) ==
  LET type == intoParsedData(ix)
  IN  CASE type = "create"           -> Details(InspectorCreateDetailsCard(ix.keys))
        [] type = "createIdempotent" -> Details(InspectorCreateIdempotentDetailsCard(ix.keys))
        [] type = "recoverNested"    -> Details(InspectorRecoverNestedDetailsCard(ix.keys))
        [] OTHER                     -> Threw

-------------------------------------------------------------------------------
(* The token programs.                                                     *)
TokenInfo ==
  [InitializeMint     |-> Info({"decimals", "mint", "mintAuthority", "rentSysvar"}, {"freezeAuthority"}),
   InitializeMint2    |-> Info({"decimals", "freezeAuthority", "mint", "mintAuthority"}, {"freezeAuthorityOption"}),
   InitializeAccount  |-> Exactly({"account", "mint", "owner", "rentSysvar"}),
   InitializeAccount3 |-> Exactly({"account", "mint", "owner"}),
   InitializeMultisig |-> Exactly({"m", "multisig", "rentSysvar", "signers"}),
   Transfer           |-> Info({"amount", "destination", "source"}, {"authority", "multisigAuthority", "signers"}),
   Approve            |-> Info({"amount", "delegate", "source"}, {"multisigOwner", "owner", "signers"}),
   Revoke             |-> Info({"source"}, {"multisigOwner", "owner", "signers"}),
   SetAuthority       |-> Info({"authorityType", "newAuthority"},
                               {"account", "authority", "mint", "multisigAuthority", "signers"}),
   MintTo             |-> Info({"account", "amount", "mint"}, {"mintAuthority", "multisigMintAuthority", "signers"}),
   Burn               |-> Info({"account", "amount", "mint"}, {"authority", "multisigAuthority", "signers"}),
   CloseAccount       |-> Info({"account", "destination"}, {"multisigOwner", "owner", "signers"}),
   FreezeAccount      |-> Info({"account", "mint"}, {"freezeAuthority", "multisigFreezeAuthority", "signers"})]

CheckedTokenInfo ==
  [TransferChecked  |-> Info({"destination", "mint", "source", "tokenAmount"},
                             {"authority", "multisigAuthority", "signers"}),
   ApproveChecked   |-> Info({"delegate", "mint", "source", "tokenAmount"}, {"multisigOwner", "owner", "signers"}),
   MintToChecked    |-> Info({"account", "mint", "tokenAmount"},
                             {"mintAuthority", "multisigMintAuthority", "signers"}),
   BurnChecked      |-> Info({"account", "mint", "tokenAmount"}, {"authority", "multisigAuthority", "signers"}),
   SyncNative       |-> Exactly({"account"}),
   GetAccountDataSize |-> Info({"mint"}, {"extensionTypes"}),
   AmountToUiAmount |-> Exactly({"amount", "mint"}),
   UiAmountToAmount |-> Exactly({"mint", "uiAmount"}),
   InitializeMintCloseAuthority |-> Exactly({"mint", "newAuthority"}),
   TransferFeeExtension |-> Exactly({"maximumFee", "mint", "transferFeeBasisPoints", "transferFeeConfigAuthority",
                                     "withdrawWitheldAuthority"}),
   DefaultAccountStateExtension |-> Info({"accountState", "mint"}, {"freezeAuthority"}),
   Reallocate       |-> Exactly({"account", "extensionTypes", "payer", "systemProgram"}),
   MemoTransferExtension |-> Info({"account"}, {"multisigOwner", "owner", "signers"}),
   CreateNativeMint |-> Exactly({"nativeMint", "payer", "systemProgram"})]

IX_STRUCTS ==
  LET T == TokenInfo
      C == CheckedTokenInfo
  IN  [amountToUiAmount |-> C.AmountToUiAmount, approve |-> T.Approve, approve2 |-> C.ApproveChecked,
       approveChecked |-> C.ApproveChecked, burn |-> T.Burn, burn2 |-> C.BurnChecked,
       burnChecked |-> C.BurnChecked, closeAccount |-> T.CloseAccount, createNativeMint |-> C.CreateNativeMint,
       defaultAccountStateExtension |-> C.DefaultAccountStateExtension, freezeAccount |-> T.FreezeAccount,
       getAccountDataSize |-> C.GetAccountDataSize, initializeAccount |-> T.InitializeAccount,
       initializeAccount2 |-> T.InitializeAccount, initializeAccount3 |-> T.InitializeAccount3,
       initializeImmutableOwner |-> C.SyncNative, initializeMint |-> T.InitializeMint,
       initializeMint2 |-> T.InitializeMint2, initializeMintCloseAuthority |-> C.InitializeMintCloseAuthority,
       initializeMultisig |-> T.InitializeMultisig, memoTransferExtension |-> C.MemoTransferExtension,
       mintTo |-> T.MintTo, mintTo2 |-> C.MintToChecked, mintToChecked |-> C.MintToChecked,
       reallocate |-> C.Reallocate, revoke |-> T.Revoke, setAuthority |-> T.SetAuthority,
       syncNative |-> C.SyncNative, thawAccount |-> T.FreezeAccount, transfer |-> T.Transfer,
       transfer2 |-> C.TransferChecked, transferChecked |-> C.TransferChecked,
       transferFeeExtension |-> C.TransferFeeExtension, uiAmountToAmount |-> C.UiAmountToAmount]

(* The account whose mint tells the decimals of an amount, unless the info *)
(* names the mint itself.                                                  *)
tokenAddress(info) ==
  IF "amount" \notin DOMAIN info \/ "mint" \in DOMAIN info THEN NoData
  ELSE IF "account" \in DOMAIN info THEN info.account
  ELSE IF "source" \in DOMAIN info THEN info.source ELSE NoData

mintAddress(info) ==
  IF "amount" \in DOMAIN info /\ "mint" \in DOMAIN info THEN info.mint
  ELSE IF tokenAddress(info) \in known THEN MintOf[tokenAddress(info)] ELSE NoData

(* What a card has asked for and not got.                                  *)
Wanted(ix) == {tokenAddress(ix.info), mintAddress(ix.info)} \ ({NoData} \cup known)

decimalsOf(ix) ==
  IF "tokenAmount" \in DOMAIN ix.info THEN DecimalsOf[ix.mint]
  ELSE IF "amount" \in DOMAIN ix.info /\ mintAddress(ix.info) \in known THEN DecimalsOf[mintAddress(ix.info)]
  ELSE NoData

(* The rows of a card, one more for the token when its mint is known.      *)
TokenInstruction(ix) ==
  LET mint == mintAddress(ix.info)
      fields == DOMAIN ix.info \cup (IF mint = NoData THEN {} ELSE {"token"})
  IN  [Details([f \in fields |-> Row(f, IF f = "token" THEN mint ELSE ix.info[f])])
         EXCEPT !.decimals = decimalsOf(ix)]

(* What throws is caught by the boundary around it, which shows the        *)
(* unknown card.                                                           *)
TokenDetailsCard(ix) ==
  LET structs == IX_STRUCTS
  IN  IF ix.type \in DOMAIN structs /\ accepts(structs[ix.type], ix.info)
        THEN TokenInstruction(ix) ELSE Unknown

-------------------------------------------------------------------------------
(* The programs whose bytes have a card of their own; of the others the    *)
(* IDL is asked for, and no card is drawn until it has been answered.      *)
OwnCard == {"ed25519", "mango", "serum", "tokenSwap", "tokenLending", "wormhole", "pyth",
            "computeBudget", "lighthouse", "starframe"}

ParsedCard(ix) ==
  CASE ix.program = "splToken"             -> TokenDetailsCard(ix)
    [] ix.program = "bpfLoader"            -> BpfLoaderDetailsCard(ix)
    [] ix.program = "bpfUpgradeableLoader" -> BpfUpgradeableLoaderDetailsCard(ix)
    [] ix.program = "system"               -> SystemDetailsCard(ix)
    [] ix.program = "stake"                -> StakeDetailsCard(ix)
    [] ix.program = "splMemo"              -> MemoDetailsCard(ix)
    [] ix.program = "associatedToken"      -> AssociatedTokenDetailsCard(ix)
    [] ix.program = "vote"                 -> VoteDetailsCard(ix)
    [] ix.program = "addressLookupTable"   -> AddressLookupTableDetailsCard(ix)
    [] OTHER                               -> Unknown

(* Of bytes that are no instruction of the IDL the card says so in its     *)
(* only row.  (At some bytes the coder throws, and the boundary shows the  *)
(* unknown card as it does without a program.)                             *)
AnchorOrUnknownDetailsCard(ix) ==
  IF idls[ix.program] = "program"
    THEN Details(IF ix.decodes THEN <<>> ELSE <<Row("failed", NoData)>>) ELSE Unknown

(* The keys of an instruction that the node has not parsed, as the message *)
(* lists them.                                                             *)
intoTransactionInstruction(ix) ==
  IF ToSet(ix.keys) \subseteq transaction.accountKeys THEN ix.keys ELSE NoData

InstructionCard(ix) ==
  IF ix.type # NoData THEN ParsedCard(ix)
  ELSE IF intoTransactionInstruction(ix) = NoData THEN Error
  ELSE IF ix.program \in OwnCard THEN IF ix.decodes THEN Details(<<>>) ELSE Unknown
  ELSE AnchorOrUnknownDetailsCard(ix)

(* The inspector reads the bytes of associated token instructions itself.  *)
InspectorInstructionCard(ix) ==
  IF ix.program = "associatedToken" THEN InspectorAssociatedTokenDetailsCard(ix)
  ELSE IF ix.program \in {"computeBudget", "starframe"}
    THEN IF ix.decodes THEN Details(<<>>) ELSE Unknown
  ELSE AnchorOrUnknownDetailsCard(ix)

-------------------------------------------------------------------------------
(* The instructions an instruction called: those of every set of inner     *)
(* instructions with its index.  On mainnet none are told before the slot  *)
(* nodes began to record them in.                                          *)
innerInstructions(i) ==
  IF transaction.cluster = "mainnet-beta" /\ transaction.slot < INNER_INSTRUCTIONS_START_SLOT THEN <<>>
  ELSE FlattenSeq([n \in DOMAIN transaction.inner |->
                     IF transaction.inner[n].index = i THEN transaction.inner[n].instructions ELSE <<>>])

(* The cards are numbered #i, and #i.j for inner instructions.             *)
numbers ==
  {<<i>> : i \in DOMAIN transaction.instructions}
  \cup UNION {{<<i, j>> : j \in DOMAIN innerInstructions(i)} : i \in DOMAIN transaction.instructions}

instructionAt(n) ==
  IF Len(n) = 1 THEN transaction.instructions[n[1]] ELSE innerInstructions(n[1])[n[2]]

card(n) == InstructionCard(instructionAt(n))

asked == {p \in DOMAIN idls : idls[p] = "asked"}

Shown == details /\ asked = {} /\ \A n \in numbers : card(n).kind # "threw"

(* Mutant: an inner instruction takes the raw instruction that called it.  *)
rawOfAny(n) == IF raw.data # NoData THEN raw.data[n[1]] ELSE NoData

(* A card of the unknown kind has no view but the raw one.  For one the    *)
(* node has parsed the view tells the info, and the keys if the raw        *)
(* transaction has them.                                                   *)
rawOf(n) == IF Len(n) = 1 /\ raw.data # NoData THEN raw.data[n[1]] ELSE NoData

BaseRawDetails(n) == [keys |-> intoTransactionInstruction(instructionAt(n)), info |-> NoData]
BaseRawParsedDetails(n) == [keys |-> rawOf(n), info |-> instructionAt(n).info]

rawView(n) == IF instructionAt(n).type = NoData THEN BaseRawDetails(n) ELSE BaseRawParsedDetails(n)

-------------------------------------------------------------------------------
Init ==
  /\ transaction \in Transactions
  /\ details = FALSE
  /\ idls = [p \in {instructionAt(n).program : n \in {k \in numbers : /\ instructionAt(k).type = NoData
                                                                      /\ instructionAt(k).program \notin OwnCard}}
               |-> "asked"]
  /\ known = {} /\ raw = [fetching |-> FALSE, data |-> NoData] /\ showRaw = {}
  /\ hash \in numbers \cup {NoData}
  /\ scroll = [enabled |-> TRUE, moved |-> FALSE, to |-> <<>>]

(* maybeScroll, as the cards mount: the card the url names registers its   *)
(* anchor.                                                                 *)
maybeScroll ==
  scroll' = IF ~Shown /\ Shown' /\ scroll.enabled /\ hash \in numbers /\ card(hash).kind # "error"
              THEN [scroll EXCEPT !.enabled = FALSE, !.to = Append(@, hash)] ELSE scroll

(* The details of the transaction arrive.                                  *)
Load ==
  /\ ~details
  /\ details' = TRUE
  /\ UNCHANGED <<transaction, idls, known, raw, showRaw, hash>>
  /\ maybeScroll

(* The IDL of a program is answered: it makes a program, or does not, or   *)
(* there is none.                                                          *)
IdlAnswered(p) ==
  /\ details /\ idls[p] = "asked"
  /\ \E answer \in {"program", "none"} : idls' = [idls EXCEPT ![p] = answer]
  /\ UNCHANGED <<transaction, details, known, raw, showRaw, hash>>
  /\ maybeScroll

(* A token account or mint that a card asked for arrives.                  *)
AccountArrives(n) ==
  /\ Shown /\ instructionAt(n).program = "splToken" /\ card(n).kind = "details"
  /\ \E a \in Wanted(instructionAt(n)) : known' = known \cup {a}
  /\ UNCHANGED <<transaction, details, idls, raw, showRaw, hash, scroll>>

(* The click on the raw button of a card.                                  *)
rawClickHandler(n) ==
  /\ Shown /\ card(n).kind = "details"
  /\ showRaw' = IF n \in showRaw THEN showRaw \ {n} ELSE showRaw \cup {n}
  /\ raw' = [raw EXCEPT !.fetching = @ \/ (n \notin showRaw /\ rawOf(n) = NoData)]
  /\ UNCHANGED <<transaction, details, idls, known, hash, scroll>>

(* The raw transaction arrives, or its fetch fails.                        *)
RawArrives ==
  /\ raw.fetching
  /\ \E data \in {raw.data, [i \in DOMAIN transaction.instructions |-> transaction.instructions[i].keys]} :
       raw' = [fetching |-> FALSE, data |-> data]
  /\ UNCHANGED <<transaction, details, idls, known, showRaw, hash, scroll>>

(* handleScroll, once the user has moved the page by more than 44 pixels.  *)
handleScroll ==
  /\ ~scroll.moved
  /\ scroll' = [scroll EXCEPT !.enabled = FALSE, !.moved = TRUE]
  /\ UNCHANGED <<transaction, details, idls, known, raw, showRaw, hash>>

Next ==
  \/ Load \/ RawArrives \/ handleScroll
  \/ \E p \in DOMAIN idls : IdlAnswered(p)
  \/ \E n \in numbers : AccountArrives(n) \/ rawClickHandler(n)

-------------------------------------------------------------------------------
(* What a card does not tell: the zeros of a lockup and of a vote, the     *)
(* system program a table is created with, and who gets the rent of a      *)
(* closed table.                                                           *)
LeftOut(ix) ==
  {f \in DOMAIN ix.info : ix.info[f] = Zero}
  \cup (IF ix.type \in {"createLookupTable", "closeLookupTable"} THEN {"systemProgram", "recipient"} ELSE {})

(* What the node says of an instruction is told by its card, each thing    *)
(* once and as it was said; and the unknown card only shows what lacks     *)
(* something the node should have said, or has it wrong (not whole).       *)
InfoIsTold ==
  \A n \in numbers :
    LET ix == instructionAt(n)
        told == card(n)
        rows == told.rows
        said == {k \in DOMAIN rows : rows[k].field # "token"}
    IN  ix.type # NoData =>
          /\ (told.kind = "details") = ix.whole
          /\ ix.whole =>
               /\ \A k, l \in said : rows[k].field = rows[l].field => k = l
               /\ \A k \in said : rows[k].value = ix.info[rows[k].field]
               /\ {rows[k].field : k \in said} = DOMAIN ix.info \ LeftOut(ix)

(* The inspector, which reads the keys, tells of an associated token       *)
(* account what the page of the transaction does, which asks the node.     *)
InspectorAgrees ==
  \A n \in {k \in numbers : Len(k) = 1} :
    LET ix == instructionAt(n)
    IN  ix.program = "associatedToken" /\ card(n).kind = "details" =>
          Range(InspectorInstructionCard(ix).rows) = Range(card(n).rows)

(* An amount is told with the decimals of its own token, and once nothing  *)
(* more is to arrive it is, unless the account it was moved from is gone.  *)
AmountIsOfMint ==
  \A n \in numbers :
    LET ix == instructionAt(n)
        told == card(n)
        d == told.decimals
        amounts == {"amount", "tokenAmount"} \cap DOMAIN ix.info
    IN  ix.program = "splToken" /\ amounts # {} /\ told.kind = "details" =>
          /\ d # NoData => d = DecimalsOf[ix.mint]
          /\ Wanted(ix) = {} /\ d = NoData => MintOf[tokenAddress(ix.info)] = NoData

(* Every instruction that the node tells was called has a card under the   *)
(* one that called it, unless it is of before they were recorded.          *)
CallsAreShown ==
  (transaction.cluster = "mainnet-beta" => transaction.slot >= INNER_INSTRUCTIONS_START_SLOT) =>
    \A called \in ToSet(transaction.inner) : \A ix \in ToSet(called.instructions) :
      \E n \in numbers : Len(n) = 2 /\ n[1] = called.index /\ instructionAt(n) = ix

(* The raw view of a card tells its own instruction.                       *)
RawIsOwn ==
  \A n \in numbers :
    /\ rawView(n).keys \in {NoData, instructionAt(n).keys}
    /\ rawView(n).info = (IF instructionAt(n).type = NoData THEN NoData ELSE instructionAt(n).info)
    /\ instructionAt(n).type # NoData => card(n).kind # "error"

(* The page goes to the card its url names when it appears, once, unless   *)
(* the user had moved it before.                                           *)
LinkIsFollowed ==
  /\ Len(scroll.to) <= 1
  /\ scroll.to # <<>> => Shown /\ scroll.to = <<hash>>
  /\ Shown /\ hash \in numbers /\ card(hash).kind # "error" => scroll.to # <<>> \/ scroll.moved

CardsTellInstructions ==
  /\ Shown => InfoIsTold /\ InspectorAgrees /\ AmountIsOfMint /\ RawIsOwn
  /\ CallsAreShown /\ LinkIsFollowed
===============================================================================
