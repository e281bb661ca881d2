----------------------------- MODULE ProgramCards -----------------------------
(***************************************************************************)
(* What the page of an upgradeable program tells of it beside its account: *)
(* the badge and the card of its verified build (utils/verified-builds.tsx,*)
(* components/account/VerifiedBuildCard.tsx), the multisig that may upgrade*)
(* it (providers/squadsMultisig.tsx), and its security.txt.                *)
(*                                                                         *)
(* The registry of builds, the accounts of the verifier and of the         *)
(* multisigs are each asked for once and kept by SWR under a key, the      *)
(* registry for the program alone, of whichever cluster it is; a request   *)
(* that fails is made again.  While the page renders it compares what the  *)
(* registry said with the program on display, and notes the outcome in     *)
(* what SWR keeps.  How the program is fetched is in Accounts.             *)
(*                                                                         *)
(* A program is [authority, hash, txt]: hash stands for the bytes without  *)
(* the zeros at their end, and txt for what they hold of a security.txt.   *)
(***************************************************************************)
EXTENDS Naturals, Sequences, SequencesExt, FiniteSetsExt, TLC

CONSTANTS
  Url, Mainnet,    \* see AddressTabs
  NoData,
  Programs,        \* what the program may be
  TRUSTED_SIGNERS, \* in the order of their trust
  Answers,         \* what the registry may answer: sets of entries
  VerifierIdl,     \* the urls where the verifier has an IDL
  squadOf,         \* the multisigs of authorities, [version, multisig]
  isValidLink,     \* the values that are links
  MaxActs          \* bound on switches, upgrades and openings

VARIABLES
  url,
  onChain,         \* the program, by url
  programData,     \* the program on display; NoData while it is fetched
  osec,            \* what the registry answers: Answered(entries) or NoArray
  registry,        \* what SWR keeps of it: see State
  verifier,        \* useAnchorProgram of the verifier, by url
  pdas,            \* SWR: the builds in accounts of the verifier, by signer
  squads,          \* SWR: the multisigs, by address
  page,            \* the page of a tab that is open
  broken,          \* the boundary around the card shows its error
  compared,        \* (history) the hashes the registry was compared with
  acts

programVars == <<url, onChain, programData, osec, registry, verifier, pdas, squads, page,
                 broken, compared, acts>>

(* What became of a request, and what it answered.                         *)
State(status, data) == [status |-> status, data |-> data]
Unasked == State("unasked", NoData)
Failed == State("failed", NoData)
Asked(u) == State("asked", u)
Answered(data) == State("answered", data)
NoArray == State("no array", NoData)
asksAgain(state) == state.status \in {"unasked", "failed"}

-------------------------------------------------------------------------------
(* Verified builds *)

Signer == ToSet(TRUSTED_SIGNERS) \cup ({p.authority : p \in Programs} \ {NoData})

(* The entries that count: verified, by a signer that is trusted.          *)
trusts(p, entry) ==
  entry.is_verified /\ (entry.signer \in ToSet(TRUSTED_SIGNERS) \/ entry.signer = p.authority)

(* A render: useVerifiedProgramRegistry changes the entries SWR keeps.     *)
Compare(entries, p) ==
  {IF trusts(p, e) THEN [e EXCEPT !.is_verified = (e.on_chain_hash = p.hash)] ELSE e : e \in entries}

Render(kept, p) ==
  IF p # NoData /\ kept.status = "answered"
    THEN /\ registry' = Answered(Compare(kept.data, p))
         /\ compared' = compared \cup {p.hash}
    ELSE registry' = kept /\ UNCHANGED compared

(* Mutant: whoever uploaded a build is shown first.                        *)
hierarchyOfTrusted(p) == TRUSTED_SIGNERS \o (IF p.authority = NoData THEN <<>> ELSE <<p.authority>>)

hierarchy(p) == (IF p.authority = NoData THEN <<>> ELSE <<p.authority>>) \o TRUSTED_SIGNERS

(* Of the entries that verify the program, the one of whom is trusted most.*)
verifiedData ==
  LET entries == IF registry.status = "answered" THEN registry.data ELSE {}
      verifies(s) == \E e \in entries : e.signer = s /\ trusts(programData, e)
      first == SelectInSeq(hierarchy(programData), verifies)
  IN  IF first = 0 THEN NoData
      ELSE CHOOSE e \in entries :
             e.signer = hierarchy(programData)[first] /\ trusts(programData, e)

(* useEnrichedOsecInfo: the key has the signer but not the cluster, and    *)
(* there is no request without the IDL of the verifier.                    *)
hasVerifier == verifier[url] = Answered("idl")
pda == IF verifiedData = NoData \/ ~hasVerifier THEN Unasked ELSE pdas[verifiedData.signer]

(* VerificationStatus is always Verified: an entry that is not is dropped. *)
osecInfo ==
  IF pda.status # "answered" THEN NoData
  ELSE [signer |-> verifiedData.signer, repo |-> pda.data,
        message |-> IF verifiedData.signer \in ToSet(TRUSTED_SIGNERS) THEN "trusted" ELSE "authority"]

(* The badge: it does not wait for the registry, only for the account of   *)
(* the verifier.  It is not shown without the program, while the IDL is    *)
(* awaited it suspends, and an answer that is no array throws.             *)
hasSection == programData # NoData
throws == hasSection /\ registry = NoArray
suspended == verifier[url].status # "answered"
BadgeShows ==
  IF ~hasSection \/ throws \/ suspended THEN "nothing"
  ELSE IF url \notin Mainnet THEN "Verified Builds only available on Mainnet"
  ELSE IF pda.status = "asked" THEN "Loading..."
  ELSE IF osecInfo # NoData THEN "Program Source Verified"
  ELSE "Source Code Not Provided"

(* The card: it suspends until everything it asks for is answered; an      *)
(* error is shown by the boundary around it, until the page is left.       *)
CardWaits ==
  \/ registry.status \in {"unasked", "asked"} \/ suspended
  \/ verifiedData # NoData /\ hasVerifier /\ pda.status \in {"unasked", "asked"}
CardFails ==
  /\ hasSection /\ ~throws /\ page = "verified-build"
  /\ "failed" \in {registry.status, pda.status}
CardShows ==
  IF programData = NoData \/ throws \/ page # "verified-build" THEN "nothing"
  ELSE IF broken THEN "error"
  ELSE IF CardWaits THEN "loading"
  ELSE IF osecInfo # NoData THEN "Verified Build" ELSE "not uploaded"

-------------------------------------------------------------------------------
(* The multisig *)

(* useSquadsMultisigLookup.                                                *)
squadMapInfo ==
  IF hasSection /\ url \in Mainnet /\ programData.authority \in DOMAIN squadOf
    THEN squadOf[programData.authority] ELSE NoData

(* UpgradeableProgramSection.                                              *)
SectionShows ==
  [closed |-> programData = NoData,
   authority |-> IF programData = NoData THEN NoData ELSE programData.authority,
   multisigBadge |-> squadMapInfo # NoData]

squad == IF squadMapInfo = NoData THEN NoData ELSE squads[squadMapInfo.multisig]

(* ProgramMultisigCardInner: the multisig and its members.                 *)
MultisigShows ==
  [version |-> IF squadMapInfo = NoData THEN "v3" ELSE squadMapInfo.version,
   multisig |-> IF squadMapInfo = NoData THEN NoData ELSE squadMapInfo.multisig,
   members |-> IF squad = NoData \/ squad.status # "answered" THEN NoData ELSE squad.data]

-------------------------------------------------------------------------------
(* security.txt *)

REQUIRED_KEYS == {"name", "project_url", "contacts", "policy"}
VALID_KEYS ==
  REQUIRED_KEYS \cup {"preferred_languages", "encryption", "source_code", "source_release",
                      "source_revision", "auditors", "acknowledgements", "expiry"}

(* The strings between the header and the footer: every one is ended by a  *)
(* zero, so that an empty one is the last.                                 *)
content(txt) == [i \in 1 .. txt.padding |-> ""] \o FlattenSeq(txt.pairs) \o <<"">>

(* One turn of reduce; the empty key is none.                              *)
ReadString(read, string) ==
  IF read.key = "" THEN [read EXCEPT !.key = string]
  ELSE [key |-> "", map |-> IF read.key \in VALID_KEYS THEN read.map @@ (read.key :> string) ELSE read.map]

fromProgramData(txt) ==
  IF ~txt.header \/ ~txt.footer THEN [error |-> "Program has no security.txt", map |-> <<>>]
  ELSE LET map == FoldLeft(ReadString, [key |-> "", map |-> <<>>], content(txt)).map
       IN  IF REQUIRED_KEYS \subseteq DOMAIN map
             THEN [error |-> NoData, map |-> map]
             ELSE [error |-> "some required fields are missing", map |-> <<>>]

(* SecurityCard: how the value of a key is rendered.                       *)
Rendered(key, value) ==
  IF value = "" THEN "nothing"
  ELSE IF key \in {"project_url", "policy", "source_code", "acknowledgements", "encryption", "auditors"}
       THEN IF isValidLink[value] THEN "link" ELSE IF key = "auditors" THEN "list" ELSE "text"
       ELSE IF key = "contacts" THEN "list" ELSE "text"

SecurityShows ==
  LET read == fromProgramData(programData.txt)
  IN  [error |-> read.error,
       rows |-> {[key |-> k, value |-> read.map[k], as |-> Rendered(k, read.map[k])]
                 : k \in DOMAIN read.map}]

-------------------------------------------------------------------------------
Init ==
  /\ url \in Url
  /\ onChain \in [Url -> Programs]
  /\ programData = NoData
  /\ osec \in {Answered(a) : a \in Answers} \cup {NoArray}
  /\ registry = Unasked
  /\ verifier = [u \in Url |-> Unasked]
  /\ pdas = [s \in Signer |-> Unasked]
  /\ squads = [m \in {squadOf[a].multisig : a \in DOMAIN squadOf} |-> Unasked]
  /\ page = "history"
  /\ broken = FALSE
  /\ compared = {}
  /\ acts = 0

Act == acts < MaxActs /\ acts' = acts + 1

(* The page shows no account of the other cluster (Accounts).              *)
Switch(u) ==
  /\ u # url /\ Act
  /\ url' = u
  /\ programData' = NoData
  /\ UNCHANGED <<onChain, osec, registry, verifier, pdas, squads, page, compared>>

Open(tab) ==
  /\ tab # page /\ Act
  /\ page' = tab
  /\ UNCHANGED <<url, onChain, programData, osec, registry, verifier, pdas, squads, compared>>

(* The program is upgraded, or its authority changed.                      *)
Upgrade(p) ==
  /\ p # onChain[url] /\ Act
  /\ onChain' = [onChain EXCEPT ![url] = p]
  /\ UNCHANGED <<url, programData, osec, registry, verifier, pdas, squads, page, compared>>

(* The account is fetched, or refreshed.                                   *)
Fetch ==
  /\ programData # onChain[url]
  /\ programData' = onChain[url]
  /\ Render(registry, onChain[url])
  /\ UNCHANGED <<url, onChain, osec, verifier, pdas, squads, page, acts>>

-------------------------------------------------------------------------------
(* The card asks while it renders, the badge when it is not suspended.      *)
AskRegistry ==
  /\ hasSection /\ (~suspended \/ page = "verified-build") /\ asksAgain(registry)
  /\ registry' = Asked(NoData)
  /\ UNCHANGED <<url, onChain, programData, osec, verifier, pdas, squads, page, compared, acts>>

AnswerRegistry ==
  /\ registry.status = "asked"
  /\ Render(osec, programData)
  /\ UNCHANGED <<url, onChain, programData, osec, verifier, pdas, squads, page, acts>>

FailRegistry ==
  /\ registry.status = "asked"
  /\ registry' = Failed
  /\ UNCHANGED <<url, onChain, programData, osec, verifier, pdas, squads, page, compared, acts>>

(* useAnchorProgram: no program for good when the request failed.          *)
AskVerifier ==
  /\ hasSection /\ verifier[url] = Unasked
  /\ verifier' = [verifier EXCEPT ![url] = Asked(url)]
  /\ UNCHANGED <<url, onChain, programData, osec, registry, pdas, squads, page, compared, acts>>

AnswerVerifier(u) ==
  /\ verifier[u].status = "asked"
  /\ \E idl \in (IF u \in VerifierIdl THEN {"idl", "none"} ELSE {"none"}) :
       verifier' = [verifier EXCEPT ![u] = Answered(idl)]
  /\ UNCHANGED <<url, onChain, programData, osec, registry, pdas, squads, page, compared, acts>>

(* The request goes to the url of the render that starts it.               *)
AskPda ==
  /\ ~throws /\ hasSection /\ hasVerifier
  /\ verifiedData # NoData /\ asksAgain(pda)
  /\ pdas' = [pdas EXCEPT ![verifiedData.signer] = Asked(url)]
  /\ UNCHANGED <<url, onChain, programData, osec, registry, verifier, squads, page, compared, acts>>

(* No account there is an error, too.                                      *)
AnswerPda(s) ==
  /\ pdas[s].status = "asked"
  /\ \E answer \in {Failed, Answered(<<s, pdas[s].data>>)} : pdas' = [pdas EXCEPT ![s] = answer]
  /\ UNCHANGED <<url, onChain, programData, osec, registry, verifier, squads, page, compared, acts>>

(* useSquadsMultisig, on the page of the multisig alone.                   *)
AskSquad ==
  /\ page = "program-multisig" /\ squad # NoData /\ asksAgain(squad)
  /\ squads' = [squads EXCEPT ![squadMapInfo.multisig] = Asked(url)]
  /\ UNCHANGED <<url, onChain, programData, osec, registry, verifier, pdas, page, compared, acts>>

AnswerSquad(m) ==
  /\ squads[m].status = "asked"
  /\ \E answer \in {Failed, Answered(<<"members of", m>>)} : squads' = [squads EXCEPT ![m] = answer]
  /\ UNCHANGED <<url, onChain, programData, osec, registry, verifier, pdas, page, compared, acts>>

Boundary == broken' = (CardFails' \/ (broken /\ page' = page /\ hasSection'))

Answering ==
  \/ AnswerRegistry \/ FailRegistry
  \/ \E u \in Url : AnswerVerifier(u)
  \/ \E s \in Signer : AnswerPda(s)
  \/ \E m \in DOMAIN squads : AnswerSquad(m)

Asking == AskRegistry \/ AskVerifier \/ AskPda \/ AskSquad

Next ==
  /\ \/ \E u \in Url : Switch(u)
     \/ \E tab \in {"history", "verified-build", "program-multisig"} : Open(tab)
     \/ \E p \in Programs : Upgrade(p)
     \/ Fetch
     \/ Asking \/ Answering
  /\ Boundary

Spec == Init /\ [][Next]_programVars

(* What the page asks for it asks at once, the account too, and every      *)
(* request is answered or fails.                                           *)
Fairness ==
  /\ WF_programVars(Fetch /\ Boundary)
  /\ WF_programVars(Asking /\ Boundary)
  /\ WF_programVars((AnswerRegistry \/ FailRegistry) /\ Boundary)
  /\ \A u \in Url : WF_programVars(AnswerVerifier(u) /\ Boundary)
  /\ \A s \in Signer : WF_programVars(AnswerPda(s) /\ Boundary)

-------------------------------------------------------------------------------
verifiedBy(s) ==
  osec # NoArray /\ \E e \in osec.data : e.signer = s /\ e.is_verified
                                       /\ e.on_chain_hash = programData.hash

(* A program is told to be verified only when an uploader that counts has  *)
(* verified the very bytes on display, whatever cluster and version the    *)
(* registry was compared with before.  As long as it was compared with     *)
(* these bytes alone the converse holds too, and of several uploaders the  *)
(* one is named that is trusted most; but an entry found to differ once is *)
(* not considered again (verified-builds.tsx:86).                          *)
BuildIsTold ==
  LET counts == (ToSet(TRUSTED_SIGNERS) \cup {programData.authority}) \ {NoData}
      rank(s) == IF s = programData.authority THEN 0
                 ELSE SelectInSeq(TRUSTED_SIGNERS, LAMBDA t : t = s)
      told == BadgeShows = "Program Source Verified" \/ CardShows = "Verified Build"
      answered == registry.status = "answered" /\ hasVerifier /\ pda.status = "answered"
  IN  hasSection /\ ~throws =>
        /\ told => /\ osecInfo.signer \in counts /\ verifiedBy(osecInfo.signer)
                   /\ osecInfo.repo[1] = osecInfo.signer
        /\ compared = {programData.hash} =>
             /\ told => \A s \in counts : rank(s) < rank(osecInfo.signer) => ~verifiedBy(s)
             /\ answered /\ url \in Mainnet /\ (\E s \in counts : verifiedBy(s)) => told

(* The members shown are of the multisig that may upgrade the program, and *)
(* the badge leads to a page that names one.                               *)
MultisigIsTold ==
  /\ SectionShows.multisigBadge => MultisigShows.multisig # NoData
  /\ hasSection /\ MultisigShows.members # NoData =>
    /\ programData.authority \in DOMAIN squadOf
    /\ MultisigShows.multisig = squadOf[programData.authority].multisig
    /\ MultisigShows.members = <<"members of", MultisigShows.multisig>>

(* A security.txt is shown as it was written, with the first value of each *)
(* key that is known, and if one that is required is missing not at all.   *)
SecurityIsAsWritten ==
  LET txt == programData.txt
      keys == {txt.pairs[i][1] : i \in DOMAIN txt.pairs} \cap VALID_KEYS
      valueOf(k) == txt.pairs[Min({i \in DOMAIN txt.pairs : txt.pairs[i][1] = k})][2]
      complete == txt.header /\ txt.footer /\ REQUIRED_KEYS \subseteq keys
      Pairs(rows) == {<<row.key, row.value>> : row \in rows}
  IN  hasSection =>
        /\ complete <=> SecurityShows.error = NoData
        /\ Pairs(SecurityShows.rows) = IF complete THEN {<<k, valueOf(k)>> : k \in keys} ELSE {}

(* What the page tells of a program beside its account is so.              *)
ProgramIsTold == BuildIsTold /\ MultisigIsTold /\ SecurityIsAsWritten

(* The card of the verified build comes to show a build, none or an error. *)
BuildSettles == CardShows = "loading" ~> CardShows # "loading"
===============================================================================
