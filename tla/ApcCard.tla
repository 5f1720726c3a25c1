------------------------------ MODULE ApcCard ------------------------------
(***************************************************************************)
(* The three APC power devices under the controller's outlets, address and  *)
(* syslog settings: the rack PDU (apc-pdu), the Smart-UPS (apc-ups) and the *)
(* Back-UPS (apc-backups), each behind the inform loop's outlet branch.     *)
(*                                                                         *)
(* Relays are switched at once; names, the address and the syslog servers   *)
(* are partial config.ini uploads, which the card applies in its own time:  *)
(* an upload that arrives while another is being applied is dropped without *)
(* a word.  A round of the loop is collect, cycles, address, syslog,        *)
(* outlets; the card, the front panel and the controller move between its   *)
(* steps.  A card is dialled by a name that follows its address.            *)
(***************************************************************************)
EXTENDS Naturals, Sequences, FiniteSets, SequencesExt

CONSTANTS Cards,           \* the devices to consider
          Outlets, Main,   \* a UPS's outlet group 1 is wired to its output
          ControlOutlets,  \* the outlets the configuration lets the bridge write
          Names, Truncate, \* what a card keeps of a name: at most 23 characters
          Addresses, Lease, Servers, HostLists, NumServers,
          MaxMisses, Allow,
          NoUpload, NoAddress, Nobody,
          MaxEdits,        \* settings edited
          MaxTroubles      \* outlets switched by hand or cycled, failed calls, crashes

VARIABLES card, relay, rebooting, label, address, syslog, applying,  \* the device
          wanted, pending, previous,   \* the controller's text, and the address of the text applied last
          seen,                        \* the driver's last snapshot
          dhcp,                        \* its note of the card's addressing mode
          applier,                     \* its SyslogApplier
          everOutletApplied, cycles, turn,
          agreed,                      \* this run has found nothing to switch once
          unread,                      \* the card applied a syslog upload its applier was not waiting for
          left                         \* the edits and the troubles still to come

device == <<relay, rebooting, label, address, syslog>>
vars == <<card, device, applying, wanted, pending, previous, seen, dhcp, applier, everOutletApplied, cycles,
          turn, agreed, unread, left>>

Spend(cause) == left[cause] > 0 /\ left' = [left EXCEPT ![cause] = @ - 1]

(***************************************************************************)
(* The card.                                                                *)
(***************************************************************************)
Switchable == IF card = "pdu" THEN Outlets ELSE Outlets \ {Main}

\* A card takes one upload at a time.
Stored(u) == IF applying = NoUpload THEN u ELSE applying

\* An upload that is reported as failed may have reached the card or not.
MayBeStored(u) == applying' \in {applying, Stored(u)}

\* Syslog.Hosts: the servers in slot order, none when syslog is off.
SentTo(s) == IF s.on THEN SelectSeq(s.server, LAMBDA h : h # Nobody) ELSE <<>>

CardApplies ==
  /\ applying # NoUpload /\ applying' = NoUpload
  /\ label' = IF applying.section = "names"
              THEN applying.value @@ label ELSE label
  /\ address' = IF applying.section = "address" THEN applying.value ELSE address
  /\ syslog' = IF applying.section = "syslog" THEN applying.value ELSE syslog
  /\ unread' = (unread \/ (applying.section = "syslog" /\ ~applier.awaiting))
  /\ UNCHANGED <<card, relay, rebooting, wanted, pending, previous, seen, dhcp, applier, everOutletApplied,
                 cycles, turn, agreed, left>>

\* A power cycle is over: the relay closes.
RebootEnds(o) ==
  /\ o \in rebooting
  /\ rebooting' = rebooting \ {o} /\ relay' = [relay EXCEPT ![o] = TRUE]
  /\ UNCHANGED <<card, label, address, syslog, applying, wanted, pending, previous, seen, dhcp, applier,
                 everOutletApplied, cycles, turn, agreed, left, unread>>

\* Somebody switches an outlet at the front panel.
Hand(o) ==
  /\ o \in Switchable \ rebooting /\ Spend("troubles")
  /\ relay' = [relay EXCEPT ![o] = ~@]
  /\ UNCHANGED <<card, rebooting, label, address, syslog, applying, wanted, pending, previous, seen, dhcp,
                 applier, everOutletApplied, cycles, turn, agreed, unread>>

(***************************************************************************)
(* The controller: one edited setting to a push, of those the device's      *)
(* driver takes, and relayctl.  Both come with the answer to an inform,     *)
(* between a round's poll and the rest of it.                               *)
(***************************************************************************)
Edit ==
  /\ turn = "cycles" /\ Spend("edits") /\ pending' = TRUE
  /\ \/ \E o \in Outlets : wanted' = [wanted EXCEPT !.on[o] = ~@]
     \/ card = "pdu" /\ \E o \in Outlets, n \in Names : wanted' = [wanted EXCEPT !.name[o] = n]
     \/ card # "ups" /\ \E a \in Addresses \cup {"dhcp"} : wanted' = [wanted EXCEPT !.address = a]
     \/ card # "ups" /\ \E h \in HostLists : wanted' = [wanted EXCEPT !.hosts = h]
  /\ wanted' # wanted
  /\ UNCHANGED <<card, device, applying, previous, seen, dhcp, applier, everOutletApplied, cycles, turn, agreed, unread>>

Relayctl(o) ==
  /\ turn = "cycles" /\ Spend("troubles") /\ cycles' = cycles \cup {o}
  /\ UNCHANGED <<card, device, applying, wanted, pending, previous, seen, dhcp, applier, everOutletApplied,
                 turn, agreed, unread>>

(***************************************************************************)
(* Polls.                                                                   *)
(***************************************************************************)
Snapshot == [on |-> relay, name |-> label, ip |-> IF address = "dhcp" THEN Lease ELSE address]

Collect ==
  /\ turn = "collect" /\ turn' = "cycles" /\ seen' = Snapshot
  /\ UNCHANGED <<card, device, applying, wanted, pending, previous, dhcp, applier, everOutletApplied, cycles,
                 agreed, left, unread>>

\* A failed poll keeps the last snapshot, and the round goes on with it.
CollectFails ==
  /\ turn = "collect" /\ turn' = "cycles" /\ Spend("troubles")
  /\ UNCHANGED <<card, device, applying, wanted, pending, previous, seen, dhcp, applier, everOutletApplied,
                 cycles, agreed, unread>>

(***************************************************************************)
(* Relays.  A command that fails may have reached the card or not.          *)
(***************************************************************************)
\* desiredOutlets, less what the drivers ignore.
Desired == ControlOutlets \cap Outlets

\* Mutant: only a new push is compared with the relays.
PlanOutletsOfPush == {o \in Desired \cap Switchable : pending /\ wanted.on[o] # seen.on[o]}
\* The outlets ApplyOutlets switches, and PlanOutlets would report.
PlanOutlets == {o \in Desired \cap Switchable : wanted.on[o] # seen.on[o]}

\* The PDU and the Smart-UPS take a command per outlet, the Back-UPS one form
\* with all of them; done says which reached the card.
Switched(done) ==
  /\ relay' = [o \in Outlets |-> IF o \in done THEN wanted.on[o] ELSE relay[o]]
  /\ rebooting' = rebooting \ done

\* The drivers' CycleOutlet over the queue: the main group and the outlets
\* out of the bridge's control are refused, and the others go on.
CycleOutlets ==
  /\ turn = "cycles" /\ turn' = IF card = "ups" THEN "outlets" ELSE "address"
  /\ cycles' = {}
  /\ LET targets == cycles \cap Desired \cap Switchable IN
     \/ /\ relay' = [o \in Outlets |-> relay[o] /\ o \notin targets]
        /\ rebooting' = rebooting \cup targets /\ UNCHANGED left
     \/ targets # {} /\ Spend("troubles") /\ UNCHANGED <<relay, rebooting>>
  /\ UNCHANGED <<card, label, address, syslog, applying, wanted, pending, previous, seen, dhcp, applier,
                 everOutletApplied, agreed, unread>>

(***************************************************************************)
(* The address.                                                             *)
(***************************************************************************)
\* addressIntent: a static address always, DHCP only in the push that leaves
\* a static one.
AddressIntent ==
  IF wanted.address # "dhcp" THEN wanted.address
  ELSE IF pending /\ previous \in Addresses THEN "dhcp" ELSE NoAddress

\* Mutant: the note of the mode alone decides.
AddressDiffersByMode == (AddressIntent = "dhcp") # dhcp
\* Nothing to upload when the card is there already, by the last poll and the
\* driver's own note of the mode.
AddressDiffers ==
  IF AddressIntent = "dhcp" THEN ~dhcp ELSE dhcp \/ seen.ip # AddressIntent

ApplyAddress ==
  /\ turn = "address" /\ turn' = "syslog"
  /\ IF AddressIntent = NoAddress \/ ~AddressDiffers
     THEN UNCHANGED <<applying, dhcp, left>>
     ELSE LET upload == [section |-> "address", value |-> AddressIntent] IN
          \/ applying' = Stored(upload) /\ dhcp' = (AddressIntent = "dhcp") /\ UNCHANGED left
          \/ MayBeStored(upload) /\ Spend("troubles") /\ UNCHANGED dhcp
  /\ UNCHANGED <<card, device, wanted, pending, previous, seen, applier, everOutletApplied, cycles, agreed, unread>>

(***************************************************************************)
(* Syslog (SyslogApplier).                                                  *)
(***************************************************************************)
\* The section as the card will hold it, written over the section last read.
Render(cur, hosts) ==
  IF hosts = <<>> THEN [cur EXCEPT !.on = FALSE]
  ELSE [on |-> TRUE, server |-> [n \in 1..NumServers |-> IF n <= Len(hosts) THEN hosts[n] ELSE Nobody]]

\* An upload is read back once it has settled, and counts as a miss when the
\* card still sends elsewhere.
ReadBack ==
  IF ~(applier.awaiting /\ applier.settled) THEN applier
  ELSE [applier EXCEPT !.cur = syslog, !.awaiting = FALSE,
                       !.misses = IF SentTo(syslog) = applier.want THEN 0 ELSE @ + 1]

\* Other hosts than the last ones uploaded start with no misses.
Forgiven(a) == IF wanted.hosts = a.want THEN a ELSE [a EXCEPT !.misses = 0]

\* Nothing to upload: still settling, there already, missed too often, or
\* more hosts than the card has slots.
Content(a) ==
  \/ a.awaiting \/ SentTo(a.cur) = wanted.hosts
  \/ Forgiven(a).misses >= MaxMisses \/ Len(wanted.hosts) > NumServers

Uploaded(a) == [Forgiven(a) EXCEPT !.awaiting = TRUE, !.settled = FALSE, !.want = wanted.hosts]

SyslogUpload == [section |-> "syslog", value |-> Render(ReadBack.cur, wanted.hosts)]

\* The section is read back before anything is decided; an upload that fails
\* leaves no note of itself.
ApplySyslog ==
  /\ turn = "syslog" /\ turn' = "outlets"
  /\ \/ /\ applier' = CASE ReadBack.awaiting \/ SentTo(ReadBack.cur) = wanted.hosts -> ReadBack
                        [] Content(ReadBack) -> Forgiven(ReadBack)
                        [] OTHER -> Uploaded(ReadBack)
        /\ applying' = IF Content(ReadBack) THEN applying ELSE Stored(SyslogUpload)
        /\ unread' = (unread /\ ReadBack = applier) /\ UNCHANGED left
     \/ /\ Spend("troubles") /\ ~Content(ReadBack)                        \* the upload fails
        /\ applier' = Forgiven(ReadBack) /\ MayBeStored(SyslogUpload)
        /\ unread' = (unread /\ ReadBack = applier)
     \/ /\ Spend("troubles") /\ applier.awaiting /\ applier.settled       \* config.ini cannot be read
        /\ UNCHANGED <<applier, applying, unread>>
  /\ UNCHANGED <<card, device, wanted, pending, previous, seen, dhcp, everOutletApplied, cycles, agreed>>

\* DefaultSettle has passed since the upload.  It is chosen to outlast the
\* card: an upload of this section that was not dropped has been applied.
Settle ==
  /\ applier.awaiting /\ ~applier.settled
  /\ applying # NoUpload => applying.section # "syslog"
  /\ applier' = [applier EXCEPT !.settled = TRUE]
  /\ UNCHANGED <<card, device, applying, wanted, pending, previous, seen, dhcp, everOutletApplied, cycles, turn,
                 agreed, left, unread>>

(***************************************************************************)
(* Outlets.                                                                 *)
(***************************************************************************)
\* Mutant: the hold ends for good with the first push ever applied.
HoldsUnlessApplied ==
  card # "pdu" /\ ~Allow /\ previous = NoAddress /\ PlanOutlets # {}
\* holdInitialOutletPush; the PDU's driver has no plan to ask.
HoldsInitialOutletPush ==
  card # "pdu" /\ ~Allow /\ ~everOutletApplied /\ PlanOutlets # {}

\* The names a PDU is to be given, but for the outlets that failed to switch:
\* one upload for all of them, cut to what the card keeps.
NewNames(failed) ==
  LET differ == {o \in Desired \ failed : card = "pdu" /\ wanted.name[o] # seen.name[o]}
  IN [o \in differ |-> Truncate[wanted.name[o]]]

NamesUpload(names) == [section |-> "names", value |-> names]

WriteNames(names) ==
  applying' = IF DOMAIN names = {} THEN applying ELSE Stored(NamesUpload(names))

\* The Back-UPS driver notes what it switched; the others wait for the poll.
SeenAfter(ok) ==
  IF card # "backups" \/ ~ok \/ PlanOutlets = {} THEN seen
  ELSE [seen EXCEPT !.on = [o \in Outlets |-> IF o \in Desired \cap Switchable THEN wanted.on[o] ELSE @[o]]]

Hold ==
  /\ turn = "outlets" /\ HoldsInitialOutletPush /\ turn' = "collect"
  /\ UNCHANGED <<card, device, applying, wanted, pending, previous, seen, dhcp, applier, everOutletApplied,
                 cycles, agreed, left, unread>>

ApplyOutlets ==
  /\ turn = "outlets" /\ ~HoldsInitialOutletPush /\ turn' = "collect"
  /\ Switched(PlanOutlets) /\ seen' = SeenAfter(TRUE)
  /\ WriteNames(NewNames({}))
  /\ everOutletApplied' = TRUE /\ agreed' = (agreed \/ PlanOutlets = {})
  /\ pending' = FALSE /\ previous' = IF pending THEN wanted.address ELSE previous
  /\ UNCHANGED <<card, label, address, syslog, wanted, dhcp, applier, cycles, left, unread>>

\* Some command fails: those of the PDU and the Smart-UPS one by one, the
\* Back-UPS's form as a whole, the PDU's names on their own.  A command that
\* failed may have reached the relay.  The push stays pending.
ApplyOutletsFails ==
  /\ turn = "outlets" /\ ~HoldsInitialOutletPush /\ turn' = "collect"
  /\ Spend("troubles")
  /\ \E failed \in IF card = "backups" THEN {PlanOutlets} ELSE SUBSET PlanOutlets :
       /\ \E lost \in IF card = "backups" THEN {{}, failed} ELSE SUBSET failed :
            Switched((PlanOutlets \ failed) \cup lost)
       /\ \/ failed # {} /\ WriteNames(NewNames(failed))
          \/ DOMAIN NewNames(failed) # {} /\ MayBeStored(NamesUpload(NewNames(failed)))
  /\ seen' = SeenAfter(FALSE)
  /\ UNCHANGED <<card, label, address, syslog, wanted, pending, previous, dhcp, applier, everOutletApplied,
                 cycles, agreed, unread>>

(***************************************************************************)
(* The bridge starts: config.ini is read once, and the first poll taken.    *)
(***************************************************************************)
FreshApplier == [cur |-> syslog, awaiting |-> FALSE, settled |-> FALSE, want |-> <<>>, misses |-> 0]

Crash ==
  /\ turn # "down" /\ Spend("troubles") /\ turn' = "down" /\ cycles' = {}
  /\ UNCHANGED <<card, device, applying, wanted, pending, previous, seen, dhcp, applier, everOutletApplied, agreed, unread>>

\* The card may still be at an upload of the process before.
Start ==
  /\ turn = "down" /\ turn' = "collect"
  /\ seen' = Snapshot /\ dhcp' = (address = "dhcp") /\ applier' = FreshApplier
  /\ everOutletApplied' = FALSE /\ agreed' = FALSE /\ unread' = FALSE
  /\ UNCHANGED <<card, device, applying, wanted, pending, previous, cycles, left>>

Init ==
  /\ card \in Cards
  /\ relay \in [Outlets -> BOOLEAN] /\ (card # "pdu" => relay[Main])
  /\ rebooting = {} /\ applying = NoUpload
  /\ label = [o \in Outlets |-> Truncate[CHOOSE n \in Names : TRUE]]
  /\ address \in {CHOOSE a \in Addresses : TRUE, "dhcp"}
  /\ syslog = [on |-> FALSE, server |-> [n \in 1..NumServers |-> Nobody]]
  /\ wanted = [on |-> [o \in Outlets |-> TRUE], name |-> label, address |-> "dhcp", hosts |-> <<>>]
  /\ pending = TRUE /\ previous = NoAddress
  /\ seen = Snapshot /\ dhcp = (address = "dhcp") /\ applier = FreshApplier
  /\ everOutletApplied = FALSE /\ agreed = FALSE /\ unread = FALSE /\ cycles = {} /\ turn = "collect"
  /\ left = [edits |-> MaxEdits, troubles |-> MaxTroubles]

Round == Start \/ Collect \/ CycleOutlets \/ ApplyAddress \/ ApplySyslog \/ Hold \/ ApplyOutlets

Next ==
  \/ CardApplies \/ Edit \/ CollectFails \/ Settle \/ ApplyOutletsFails \/ Crash \/ Round
  \/ \E o \in Outlets : RebootEnds(o) \/ Hand(o) \/ Relayctl(o)

(***************************************************************************)
(* Properties.                                                              *)
(***************************************************************************)
\* Silently applying the difference between the controller's stored outlets
\* and a UPS's real ones is what the bridge must never do: bringing the outlets
\* to the controller's settings moves a relay of a UPS only in a run that found
\* them equal once.  A power cycle somebody asks for (CycleOutlets) is not held.
NoSurprise ==
  (relay' # relay /\ turn = "outlets" /\ turn' = "collect" /\ card # "pdu" /\ ~Allow) => agreed

\* A push a UPS's first round disagrees with is held until somebody sets the
\* outlets alike.
Held == HoldsInitialOutletPush

RelaysReached == Held \/ \A o \in Desired \cap Switchable : relay[o] = wanted.on[o]

\* The applier has what the controller asks for in the section it read last,
\* and the card applied an upload since that the applier does not know of: one
\* of the process before, or one that was reported as failed.
Misled == unread /\ SentTo(applier.cur) = wanted.hosts

SettingsReached ==
  /\ card = "pdu" => \A o \in Desired : label[o] = Truncate[wanted.name[o]]
  /\ (card # "ups" /\ wanted.address # "dhcp") => Snapshot.ip = wanted.address
  /\ card # "ups" => \/ SentTo(syslog) = wanted.hosts \/ Len(wanted.hosts) > NumServers
                     \/ applier.want = wanted.hosts /\ applier.misses >= MaxMisses
                     \/ Misled
=============================================================================
