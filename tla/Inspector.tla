------------------------------- MODULE Inspector -------------------------------
(***************************************************************************)
(* The transaction inspector (components/inspector/InspectorPage.tsx and   *)
(* RawInputCard.tsx): a text that is pasted, or the parameters of the url, *)
(* become the transaction that is shown, and what is shown goes into the   *)
(* url, so that the page can be shared.  Two effects keep them together,   *)
(* one in each direction, while navigations take time: the router drops a  *)
(* navigation that has not ended when the next one starts.                 *)
(*                                                                         *)
(* A text is what is pasted, or the text of a message parameter; what it   *)
(* is a message of, and what the input card makes of it, are given by      *)
(* functions.  A parameter is coded when it is written as the page itself  *)
(* writes it.                                                              *)
(***************************************************************************)
EXTENDS Naturals

CONSTANTS
  Text,            \* the texts that are pasted or linked
  messageOf,       \* the message a text is the base64 of, NoData if of none
  inputOf,         \* the data the input card makes of a text, NoData if none
  base64,          \* the text of a message
  Signatures,      \* the lists of signatures
  Account,         \* the addresses of squads transactions
  Cluster,         \* the values of the cluster parameter
  Links,           \* the parameters the page may be opened with
  Malformed, Invalid,  \* a parameter that cannot be decoded, or not validated
  NoData,          \* `undefined`, or a parameter that is not there
  MaxActs          \* bound on what the user does

VARIABLES
  params,          \* the search parameters
  pending,         \* the navigation under way
  decoded,         \* the parameters the decoding effect last ran with
  inspectorData,   \* what is shown, NoData when the input card is there
  fresh,           \* whether inspectorData is new to the url effect
  paramString,     \* the text that prefills the input card, NoData if none
  input,           \* the text in the card
  filled,          \* the paramString the card's effect last ran with
  entered,         \* the text the user entered last, NoText when cleared
  raced,           \* whether the user ever acted during a navigation
  acts

card == <<input, filled>>
vars == <<params, pending, decoded, inspectorData, fresh, paramString, input, filled,
          entered, raced, acts>>

user == <<entered, raced, acts>>

NoText == "no text"

(* TransactionData and SquadsProposalAccountData. *)
Transaction(message, signatures) ==
  [message |-> message, signatures |-> signatures, account |-> NoData]
Proposal(account) == [message |-> NoData, signatures |-> NoData, account |-> account]

Param(value, coded) == [value |-> value, coded |-> coded]

Message == {messageOf[t] : t \in Text} \ {NoData}

Data == [message : Message, signatures : Signatures \cup {NoData}, account : {NoData}]
          \cup [message : {NoData}, signatures : {NoData}, account : Account]

MessageParam == [value : Text, coded : BOOLEAN]
SignaturesParam == [value : Signatures, coded : BOOLEAN]

Params == [cluster : Cluster,
           message : {NoData, Malformed} \cup MessageParam,
           signatures : {NoData, Malformed, Invalid} \cup SignaturesParam,
           squadsTx : {NoData, Malformed, Invalid} \cup Account]

(* What a text is of is of these sets, a message has a text, which is of   *)
(* it, and a value that stands for none, or for one that cannot be read,   *)
(* is no other.                                                            *)
ConstantsAssumption ==
  /\ Links \subseteq Params
  /\ \A t \in Text : inputOf[t] \in Data \cup {NoData}
  /\ \A m \in Message : base64[m] \in Text /\ messageOf[base64[m]] = m
  /\ NoData \notin Params \cup Data \cup Text \cup Account \cup MessageParam \cup SignaturesParam
  /\ NoData \notin {Malformed, Invalid}
  /\ \A bad \in {Malformed, Invalid} : bad \notin MessageParam \cup SignaturesParam \cup Account

-------------------------------------------------------------------------------
(* decodeUrlParams. *)

decodes(param) == param \notin {NoData, Malformed, Invalid}

(* The parameters that are deleted: those that cannot be used.             *)
rejected(p) ==
  LET squads == decodes(p.squadsTx)
  IN  (IF p.signatures = Malformed THEN {"signatures"} ELSE {})
        \cup (IF p.squadsTx = Invalid THEN {"squadsTx"} ELSE {})
        \cup (IF squads \/ p.message = NoData THEN {}
              ELSE IF p.message = Malformed THEN {"message", "signatures"}
              ELSE (IF p.signatures = Invalid THEN {"signatures"} ELSE {})
                     \cup (IF messageOf[p.message.value] = NoData THEN {"message"} ELSE {}))

without(p, names) == [n \in DOMAIN p |-> IF n \in names THEN NoData ELSE p[n]]

signaturesOf(p) == IF decodes(p.signatures) THEN p.signatures.value ELSE NoData

(* The result that is data, NoData for one that is a string.               *)
dataOf(p) ==
  IF decodes(p.squadsTx) THEN Proposal(p.squadsTx)
  ELSE IF decodes(p.message) /\ messageOf[p.message.value] # NoData
  THEN Transaction(messageOf[p.message.value], signaturesOf(p))
  ELSE NoData

(* The result that is a string, to prefill the input card with.            *)
stringOf(p) ==
  IF dataOf(p) = NoData /\ decodes(p.message) THEN p.message.value ELSE NoData

-------------------------------------------------------------------------------
(* Mutant: the signatures are not put into the url.                        *)
syncedMessage(p, data) ==
  IF data.account # NoData
  THEN [p EXCEPT !.squadsTx = data.account, !.message = NoData, !.signatures = NoData]
  ELSE [p EXCEPT !.message = Param(base64[data.message], TRUE)]

(* Mutant: the message is coded once more each time.                       *)
syncedOver(p, data) ==
  IF data.account # NoData
  THEN [p EXCEPT !.squadsTx = data.account, !.message = NoData, !.signatures = NoData]
  ELSE [p EXCEPT !.message = Param(base64[data.message],
                                   decodes(p.message) => ~p.message.coded)]

(* The parameters of what is shown, set on top of p: the effect does not   *)
(* touch signatures that are there when the data has none.                 *)
synced(p, data) ==
  IF data.account # NoData
  THEN [p EXCEPT !.squadsTx = data.account, !.message = NoData, !.signatures = NoData]
  ELSE [p EXCEPT !.message = Param(base64[data.message], TRUE),
                 !.signatures = IF data.signatures = NoData THEN @
                                ELSE Param(data.signatures, TRUE)]

(* router.push and router.replace: the page has no use for its history.    *)
Navigate(p) == pending' = p

Stay == UNCHANGED pending

mounted == inspectorData = NoData

EffectsDone ==
  /\ decoded = params
  /\ mounted => filled = paramString
  /\ ~fresh

Quiet == EffectsDone /\ pending = NoData

Init ==
  /\ params \in Links
  /\ pending = NoData
  /\ decoded = NoData
  /\ inspectorData = NoData
  /\ fresh = FALSE
  /\ paramString = NoData
  /\ input = NoText
  /\ filled = NoData
  /\ entered = NoText
  /\ raced = FALSE
  /\ acts = 0

(* Mutant: the first data that is shown does not count as new.             *)
ShowUnsynced(data) ==
  /\ inspectorData' = data
  /\ fresh' = ~mounted
  /\ input' = NoText
  /\ filled' = NoData

(* setInspectorData with new data: the input card is gone.                 *)
Show(data) ==
  /\ inspectorData' = data
  /\ fresh' = TRUE
  /\ input' = NoText
  /\ filled' = NoData

(* onInput of the card: the message parameter is cleared, and what the     *)
(* text is, if anything, is shown.                                         *)
onInput(text, ran) ==
  /\ IF text # NoText /\ params.message # NoData
       THEN Navigate(without(params, {"message"})) ELSE Stay
  /\ IF text # NoText /\ inputOf[text] # NoData
       THEN Show(inputOf[text])
       ELSE input' = text /\ filled' = ran /\ UNCHANGED <<inspectorData, fresh>>

(* The navigation ends.                                                    *)
Commit ==
  /\ EffectsDone /\ pending # NoData
  /\ params' = pending
  /\ pending' = NoData
  /\ UNCHANGED <<decoded, inspectorData, fresh, paramString, card, user>>

(* The effects after the parameters changed.  Of the input card: a string  *)
(* it was prefilled with is filled in and read again, but what it sets is  *)
(* set anew at once by the effect that decodes the parameters.             *)
DecodeEffect ==
  /\ decoded # params
  /\ decoded' = params
  /\ LET refilled == mounted /\ decoded # NoData /\ paramString # NoData
     IN  /\ IF rejected(params) # {} THEN Navigate(without(params, rejected(params)))
            ELSE IF refilled /\ params.message # NoData
            THEN Navigate(without(params, {"message"})) ELSE Stay
         /\ paramString' = stringOf(params)
         /\ IF dataOf(params) # NoData THEN Show(dataOf(params))
            ELSE /\ inspectorData' = NoData
                 /\ fresh' = FALSE
                 /\ input' = IF refilled THEN paramString ELSE input
                 /\ filled' = IF mounted THEN paramString ELSE NoData
  /\ UNCHANGED <<params, user>>

(* The effect of the input card: a new string is filled in and read.       *)
FillEffect ==
  /\ decoded = params /\ mounted /\ filled # paramString
  /\ IF paramString # NoData THEN onInput(paramString, paramString)
     ELSE filled' = paramString /\ UNCHANGED <<pending, inspectorData, fresh, input>>
  /\ UNCHANGED <<params, decoded, paramString, user>>

(* The effect that puts what is shown into the url.  A proposal is put     *)
(* there in any case, a transaction unless it is there already.            *)
UrlEffect ==
  /\ decoded = params /\ fresh
  /\ fresh' = FALSE
  /\ IF inspectorData.account # NoData \/ synced(params, inspectorData) # params
       THEN Navigate(synced(params, inspectorData)) ELSE Stay
  /\ UNCHANGED <<params, decoded, inspectorData, paramString, card, user>>

(* What the user does, perhaps while a navigation is under way: it is lost *)
(* when this starts another one.                                           *)
Act ==
  /\ EffectsDone
  /\ acts < MaxActs /\ acts' = acts + 1
  /\ raced' = (raced \/ pending # NoData)

(* A text is typed or pasted into the card.                                *)
Enter(text) ==
  /\ Act /\ mounted
  /\ onInput(text, filled)
  /\ entered' = text
  /\ UNCHANGED <<params, decoded, paramString>>

(* The Clear button of the input card. *)
clearInput ==
  /\ Act /\ mounted
  /\ input' = NoText
  /\ entered' = NoText
  /\ IF params.message # NoData THEN Navigate(without(params, {"message"})) ELSE Stay
  /\ UNCHANGED <<params, decoded, inspectorData, fresh, paramString, filled>>

(* The Clear button of what is shown. *)
reset ==
  /\ Act /\ ~mounted
  /\ Navigate(without(params, {"message", "signatures", "squadsTx"}))
  /\ entered' = NoText
  /\ UNCHANGED <<params, decoded, inspectorData, fresh, paramString, card>>

(* Another cluster is chosen: a link to the page with that parameter.      *)
Switch(cluster) ==
  /\ Act /\ cluster # params.cluster
  /\ Navigate([params EXCEPT !.cluster = cluster])
  /\ UNCHANGED <<params, decoded, inspectorData, fresh, paramString, card, entered>>

Next ==
  \/ Commit
  \/ DecodeEffect
  \/ FillEffect
  \/ UrlEffect
  \/ \E text \in Text : Enter(text)
  \/ clearInput
  \/ reset
  \/ \E c \in Cluster : Switch(c)

Spec == Init /\ [][Next]_vars

(* Effects run and navigations end; the user is free.                      *)
Fairness == WF_vars(Commit) /\ WF_vars(DecodeEffect) /\ WF_vars(FillEffect) /\ WF_vars(UrlEffect)

FairSpec == Spec /\ Fairness

-------------------------------------------------------------------------------
TypeOK ==
  /\ params \in Params
  /\ pending \in Params \cup {NoData} /\ decoded \in Params \cup {NoData}
  /\ inspectorData \in Data \cup {NoData}
  /\ fresh \in BOOLEAN /\ raced \in BOOLEAN
  /\ paramString \in Text \cup {NoData} /\ filled \in Text \cup {NoData}
  /\ input \in Text \cup {NoText} /\ entered \in Text \cup {NoText}

(* At rest the url is that of what is shown: opened again it shows the     *)
(* same ("Sync message with url search params", InspectorPage.tsx:268),    *)
(* unless the user overtook a navigation.                                  *)
UrlIsOfShown == Quiet /\ ~raced => dataOf(params) = inspectorData /\ rejected(params) = {}

(* The same whatever the user overtook.                                    *)
UrlIsAlwaysOfShown == Quiet => dataOf(params) = inspectorData

(* What was entered is what is shown at rest until it is cleared, and what *)
(* cannot be read is still in the card, however the page was opened and    *)
(* whatever cluster is chosen, unless a navigation was overtaken.          *)
EnteredIsShown ==
  Quiet /\ ~raced /\ entered # NoText =>
    IF inputOf[entered] = NoData THEN mounted /\ input = entered
    ELSE /\ ~mounted
         /\ inspectorData.message = inputOf[entered].message
         /\ inspectorData.account = inputOf[entered].account
         /\ inputOf[entered].signatures \in {NoData, inspectorData.signatures}

(* The two effects never chase each other, whatever was overtaken: the     *)
(* page comes to rest.                                                     *)
InspectorRests == <>[]Quiet
===============================================================================
