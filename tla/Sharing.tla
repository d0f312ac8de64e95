------------------------------- MODULE Sharing -------------------------------
(***************************************************************************)
(* Who shares which folder: what a device does with the ClusterConfigs of    *)
(* others. Folders that are offered and not shared become pending, for the   *)
(* user to decide on; a device may be trusted to have its folders accepted   *)
(* without a question, or to introduce others. A ClusterConfig is handled    *)
(* with a configuration that was read before, while the user changes it,     *)
(* other devices introduce, and commits close connections and clean up.      *)
(***************************************************************************)
EXTENDS Sequences, Naturals, FiniteSets

CONSTANTS
  Devices,      \* the others
  Folders,
  Conns,        \* connections, of which each device uses one at a time (see PrimaryConnection)
  Of,           \* the device of each
  Introducers,  \* devices that are introducers when they are in the configuration
  Skipping,     \* of those, the ones whose removals are not followed (SkipIntroductionRemovals)
  Present,      \* devices that are in the configuration at first
  Accepting,    \* devices with AutoAcceptFolders
  Nobody,       \* not there
  User,         \* put there by the user, not by an introducer
  MaxEdits,     \* bound on the changes by the user
  MaxRemote,    \* bound on the changes of what others share
  MaxDialled    \* bound on the connections

\* Connections are of devices, and neither sign stands for one.
ASSUME DevicesAssumption == Of \in [Conns -> Devices] /\ {Nobody, User} \cap Devices = {}

Shares == Folders \X Devices

VARIABLES
  cfg,              \* the configuration in effect: the devices and shares, each with who introduced it
  committed,        \* the one the model was told of last
  pendingFolders,   \* offers that wait for the user: pairs of folder and device
  pendingDevices,   \* unknown devices that connected
  link,             \* of each connection: down, in the exchange of hellos, up, or closing
  inbox,            \* ClusterConfigs that are not handled yet
  hand,             \* where the handler of a ClusterConfig is
  theirs,           \* what each device shares with us, and with whom else: pairs, itself included
  edits, changes, dialled,
  stale,            \* devices for which a configuration was used that was out of date
  moved,            \* shares the user has decided on, or dismissed, after the last ClusterConfig
  unignored         \* those that are ignored no longer, after the last ClusterConfig

vars == <<cfg, committed, pendingFolders, pendingDevices, link, inbox, hand, theirs, edits, changes, dialled,
          stale, moved, unignored>>

Known(c) == {d \in Devices : c.by[d] # Nobody}
Shared(c) == {s \in Shares : c.shares[s] # Nobody}
Ignored(c) == {s \in Shares : s[1] \in c.ignored[s[2]]}
OfDevice(set, d) == {s \in set : s[2] = d}
FoldersIn(set) == {s[1] : s \in set}
DevicesIn(set) == {s[2] : s \in set}

Idle == [at |-> "idle", cc |-> {}, ignored |-> {}]
\* What a device may announce: it is itself among those that share the folder.
Offers(d) == {cc \in SUBSET Shares : \A s \in cc : <<s[1], d>> \in cc}

-----------------------------------------------------------------------------
(* The configuration *)

\* prepareFoldersAndDevices: folders are shared with devices that exist; what is shared is not
\* ignored; devices that exist are not ignored.
Prepared(c) ==
  LET shares == [s \in Shares |-> IF s[1] \in c.have /\ s[2] \in Known(c) THEN c.shares[s] ELSE Nobody]
  IN [c EXCEPT !.shares = shares,
               !.paused = @ \cap Known(c),
               !.shunned = @ \ Known(c),
               !.ignored = [d \in Devices |-> IF d \in Known(c)
                                              THEN {f \in c.ignored[d] : shares[<<f, d>>] = Nobody} ELSE {}]]

\* One modification is made after the other, when the one before is committed.
Modify(c) == committed = cfg /\ cfg' = Prepared(c)

\* cleanPending: pending offers of devices that are gone, ignored ones, shared ones, and those
\* of folders that were removed; pending devices that are known or ignored now.
CleanFolders(removed) ==
  {s \in pendingFolders : /\ s[1] \notin removed
                          /\ s[2] \in Known(cfg)
                          /\ s \notin Ignored(cfg) \cup Shared(cfg)}
CleanDevices_KnownRemain == {d \in pendingDevices : d \notin cfg.shunned}
CleanDevices == {d \in pendingDevices : d \notin Known(cfg) \cup cfg.shunned}

\* Devices whose connections are closed: those that are paused now, and on being resumed those
\* for which fewer folders are ignored.
Resumed == committed.paused \ cfg.paused
FewerIgnored(d) == Cardinality(committed.ignored[d]) > Cardinality(cfg.ignored[d])
ToClose ==
  (cfg.paused \ committed.paused) \cup {d \in Resumed \cap Known(cfg) : FewerIgnored(d)}
    \cup (Known(committed) \ Known(cfg))

\* CommitConfiguration: connections are closed, pending entries cleaned up, and the handlers
\* that wait for the commit go on.
Commit ==
  LET removed == committed.have \ cfg.have
      settled == Shared(committed) \cup Ignored(committed) \cup {s \in Shares : s[1] \in removed}
      decided == settled \ (Shared(cfg) \cup Ignored(cfg))
      noLonger == (decided \cap Ignored(committed)) \ Shared(committed)
  IN
  /\ cfg # committed
  /\ committed' = cfg
  /\ link' = [c \in Conns |-> IF Of[c] \in ToClose /\ link[c] = "up" THEN "closing" ELSE link[c]]
  /\ pendingFolders' = CleanFolders(removed)
  /\ pendingDevices' = CleanDevices
  /\ hand' = [c \in Conns |-> IF hand[c].at = "wait" THEN [hand[c] EXCEPT !.at = "folders"] ELSE hand[c]]
  /\ stale' = {}
  /\ moved' = moved \cup decided
  /\ unignored' = (unignored \cup noLonger) \ (Shared(cfg) \cup Ignored(cfg) \cup {s \in Shares : s[1] \in removed})
  /\ UNCHANGED <<cfg, inbox, theirs, edits, changes, dialled>>

\* What the user may do to the configuration: devices and folders come and go, devices are
\* paused, resumed and ignored, folders are shared, unshared and ignored for a device.
Toggle(set, x) == IF x \in set THEN set \ {x} ELSE set \cup {x}
Edited(c) ==
  {[c EXCEPT !.by[d] = IF @ = Nobody THEN User ELSE Nobody] : d \in Devices}
    \cup {[c EXCEPT !.have = Toggle(@, f)] : f \in Folders}
    \cup {[c EXCEPT !.paused = Toggle(@, d)] : d \in Known(c)}
    \cup {[c EXCEPT !.shunned = Toggle(@, d)] : d \in Devices \ Known(c)}
    \cup {[c EXCEPT !.ignored[s[2]] = Toggle(@, s[1])] : s \in {s \in Shares : s[2] \in Known(c)} \ Shared(c)}
    \cup {[c EXCEPT !.shares[s] = IF @ = Nobody THEN User ELSE Nobody, !.have = @ \cup {s[1]}] :
            s \in {s \in Shares : s[2] \in Known(c)}}

Edit ==
  /\ edits < MaxEdits
  /\ edits' = edits + 1
  /\ \E c \in Edited(cfg) : Modify(c)
  /\ UNCHANGED <<committed, pendingFolders, pendingDevices, link, inbox, hand, theirs, changes, dialled,
                 stale, moved, unignored>>

\* DismissPendingFolder and DismissPendingDevice.
DismissFolder(s) ==
  /\ s \in pendingFolders
  /\ pendingFolders' = pendingFolders \ {s}
  /\ moved' = moved \cup {s} /\ unignored' = unignored \ {s}
  /\ UNCHANGED <<cfg, committed, pendingDevices, link, inbox, hand, theirs, edits, changes, dialled, stale>>

DismissDevice(d) ==
  /\ d \in pendingDevices
  /\ pendingDevices' = pendingDevices \ {d}
  /\ UNCHANGED <<cfg, committed, pendingFolders, link, inbox, hand, theirs, edits, changes, dialled, stale,
                 moved, unignored>>

-----------------------------------------------------------------------------
(* Connections *)

\* connectionCheckEarly: no hellos are exchanged with devices that are ignored or paused.
Greet(c) ==
  /\ link[c] = "down"
  /\ dialled < MaxDialled
  /\ Of[c] \notin cfg.shunned \cup cfg.paused
  /\ link' = [link EXCEPT ![c] = "greeting"]
  /\ dialled' = dialled + 1
  /\ UNCHANGED <<cfg, committed, pendingFolders, pendingDevices, inbox, hand, theirs, edits, changes,
                 stale, moved, unignored>>

\* handleHellos: OnHello puts an unknown device among the pending ones, whatever has become of it
\* meanwhile; another is added to the model, and its ClusterConfig follows.
Greeted(c) ==
  LET d == Of[c]
  IN
  /\ link[c] = "greeting"
  /\ \A other \in Conns \ {c} : Of[other] = d => link[other] # "up"
  /\ IF cfg.by[d] = Nobody
     THEN /\ pendingDevices' = pendingDevices \cup {d}
          /\ stale' = IF d \in cfg.shunned THEN stale \cup {d} ELSE stale
          /\ link' = [link EXCEPT ![c] = "down"]
          /\ inbox' = inbox
     ELSE /\ link' = [link EXCEPT ![c] = "up"]
          /\ inbox' = [inbox EXCEPT ![c] = <<theirs[d]>>]
          /\ UNCHANGED <<pendingDevices, stale>>
  /\ UNCHANGED <<cfg, committed, pendingFolders, hand, theirs, edits, changes, dialled, moved, unignored>>

\* The connection is lost; its handler comes to an end before the model is told.
Lose(c) ==
  /\ link[c] = "up"
  /\ link' = [link EXCEPT ![c] = "closing"]
  /\ UNCHANGED <<cfg, committed, pendingFolders, pendingDevices, inbox, hand, theirs, edits, changes, dialled,
                 stale, moved, unignored>>

Closed(c) ==
  /\ link[c] = "closing"
  /\ hand[c] = Idle
  /\ link' = [link EXCEPT ![c] = "down"]
  /\ inbox' = [inbox EXCEPT ![c] = <<>>]
  /\ UNCHANGED <<cfg, committed, pendingFolders, pendingDevices, hand, theirs, edits, changes, dialled,
                 stale, moved, unignored>>

\* The other device shares something else, and sends a ClusterConfig where it is connected.
TheirsChange(d) ==
  /\ changes < MaxRemote
  /\ changes' = changes + 1
  /\ \E cc \in Offers(d) \ {theirs[d]} :
       /\ theirs' = [theirs EXCEPT ![d] = cc]
       /\ inbox' = [c \in Conns |-> IF Of[c] = d /\ link[c] = "up" THEN Append(inbox[c], cc) ELSE inbox[c]]
  /\ UNCHANGED <<cfg, committed, pendingFolders, pendingDevices, link, hand, edits, dialled,
                 stale, moved, unignored>>

-----------------------------------------------------------------------------
(* The handling of a ClusterConfig *)

\* The configuration of the device is read once; without one the connection is closed.
Receive(c) ==
  LET d == Of[c]
  IN
  /\ link[c] \in {"up", "closing"}
  /\ hand[c] = Idle
  /\ inbox[c] # <<>>
  /\ IF d \in Known(cfg)
     THEN /\ hand' = [hand EXCEPT ![c] = [at |-> IF d \in Accepting THEN "accept" ELSE "folders",
                                          cc |-> Head(inbox[c]), ignored |-> cfg.ignored[d]]]
          /\ inbox' = [inbox EXCEPT ![c] = Tail(@)]
          /\ link' = link
     ELSE /\ link' = [link EXCEPT ![c] = "closing"]
          /\ inbox' = [inbox EXCEPT ![c] = <<>>]
          /\ hand' = hand
  /\ UNCHANGED <<cfg, committed, pendingFolders, pendingDevices, theirs, edits, changes, dialled,
                 stale, moved, unignored>>

\* handleAutoAccepts: offered folders are shared with the device; those that are not there are
\* created, unless there is something in their place.
AutoAccept(c) ==
  LET d == Of[c]
      offered == FoldersIn(hand[c].cc)
  IN
  /\ hand[c].at = "accept"
  /\ \E inPlace \in SUBSET (offered \ cfg.have) :
       LET accepted == {<<f, d>> : f \in offered \ inPlace}
       IN Modify([cfg EXCEPT !.have = @ \cup FoldersIn(accepted),
                             !.shares = [s \in Shares |-> IF s \in accepted /\ @[s] = Nobody THEN User ELSE @[s]]])
  /\ hand' = [hand EXCEPT ![c].at = IF cfg' = cfg THEN "folders" ELSE "wait"]
  /\ UNCHANGED <<committed, pendingFolders, pendingDevices, link, inbox, theirs, edits, changes, dialled,
                 stale, moved, unignored>>

\* ccHandleFolders: of what the device has offered, pending are exactly the folders that are not
\* shared with it, and were not ignored when the handler began.
HandleFolders(c) ==
  LET d == Of[c]
      offered == {<<f, d>> : f \in FoldersIn(hand[c].cc)}
      ignored == {<<f, d>> : f \in hand[c].ignored}
  IN
  /\ hand[c].at = "folders"
  /\ pendingFolders' = (pendingFolders \ OfDevice(Shares, d)) \cup (offered \ (Shared(cfg) \cup ignored))
  /\ stale' = IF d \in Known(cfg) /\ hand[c].ignored = cfg.ignored[d] THEN stale ELSE stale \cup {d}
  /\ moved' = (moved \ OfDevice(Shares, d)) \cup (ignored \ (Shared(cfg) \cup Ignored(cfg)))
  /\ unignored' = (unignored \ OfDevice(Shares, d))
  /\ IF d \in Introducers
     THEN hand' = [hand EXCEPT ![c].at = "introduce"]
     ELSE hand' = [hand EXCEPT ![c] = Idle]
  /\ UNCHANGED <<cfg, committed, pendingDevices, link, inbox, theirs, edits, changes, dialled>>

\* handleIntroductions: devices that share a folder we have too are added, and the folder is
\* shared with them, the introducer among them.
Introduced(i, common, c) ==
  [c EXCEPT !.by = [d \in Devices |-> IF d \in DevicesIn(common) /\ @[d] = Nobody THEN i ELSE @[d]],
            !.shares = [s \in Shares |-> IF s \in common /\ @[s] = Nobody THEN i ELSE @[s]]]

\* handleDeintroductions: what this device introduced and does not name any more goes, except
\* devices that share a folder for another reason.
NeededOtherwise_Nobody(i, shares) == {}
NeededOtherwise(i, shares) == {s[2] : s \in {s \in Shares : shares[s] \notin {i, Nobody}}}
Deintroduced(i, common, c) ==
  IF i \in Skipping THEN c
  ELSE [c EXCEPT !.shares = [s \in Shares |-> IF @[s] = i /\ s \notin common THEN Nobody ELSE @[s]],
                 !.by = [d \in Devices |->
                           IF @[d] = i /\ d \notin DevicesIn(common) \cup NeededOtherwise(i, c.shares)
                           THEN Nobody ELSE @[d]]]

Introduce(c) ==
  LET i == Of[c]
      common == {s \in hand[c].cc : s[1] \in cfg.have}
  IN
  /\ hand[c].at = "introduce"
  /\ Modify(Deintroduced(i, common, Introduced(i, common, cfg)))
  /\ hand' = [hand EXCEPT ![c] = Idle]
  /\ UNCHANGED <<committed, pendingFolders, pendingDevices, link, inbox, theirs, edits, changes, dialled,
                 stale, moved, unignored>>

-----------------------------------------------------------------------------

\* Some of the devices are known, and there is no folder.
Init ==
  /\ cfg = [by |-> [d \in Devices |-> IF d \in Present THEN User ELSE Nobody],
            paused |-> {}, shunned |-> {}, have |-> {},
            ignored |-> [d \in Devices |-> {}], shares |-> [s \in Shares |-> Nobody]]
  /\ committed = cfg
  /\ pendingFolders = {} /\ pendingDevices = {}
  /\ link = [c \in Conns |-> "down"]
  /\ inbox = [c \in Conns |-> <<>>]
  /\ hand = [c \in Conns |-> Idle]
  /\ theirs = [d \in Devices |-> {}]
  /\ edits = 0 /\ changes = 0 /\ dialled = 0
  /\ stale = {} /\ moved = {} /\ unignored = {}

Next ==
  \/ Commit \/ Edit
  \/ \E s \in Shares : DismissFolder(s)
  \/ \E d \in Devices : DismissDevice(d) \/ TheirsChange(d)
  \/ \E c \in Conns : \/ Greet(c) \/ Greeted(c) \/ Lose(c) \/ Closed(c)
                      \/ Receive(c) \/ AutoAccept(c) \/ HandleFolders(c) \/ Introduce(c)

Spec == Init /\ [][Next]_vars

-----------------------------------------------------------------------------
(* Properties *)

TypeOK ==
  /\ \A c \in {cfg, committed} :
       /\ c.by \in [Devices -> Devices \cup {Nobody, User}] /\ c.shares \in [Shares -> Devices \cup {Nobody, User}]
       /\ c.paused \subseteq Known(c) /\ c.shunned \cap Known(c) = {} /\ Ignored(c) \cap Shared(c) = {}
       /\ FoldersIn(Shared(c)) \subseteq c.have /\ DevicesIn(Shared(c)) \subseteq Known(c)
  /\ pendingFolders \subseteq Shares /\ pendingDevices \subseteq Devices
  /\ link \in [Conns -> {"down", "greeting", "up", "closing"}]
  /\ \A c \in Conns : hand[c].at \in {"idle", "accept", "wait", "folders", "introduce"}

\* No ClusterConfig of the device is on its way, or being handled.
Still(d) ==
  /\ cfg = committed
  /\ \A c \in Conns : Of[c] = d => hand[c] = Idle /\ inbox[c] = <<>>
Connected(d) == \E c \in Conns : Of[c] = d /\ link[c] = "up"

\* What is pending is not decided yet: after a commit no shared folder is pending, nor one that is
\* ignored or of an unknown device, nor a device that is known or ignored, but for those recorded
\* with a configuration that was out of date, until the next commit.
PendingRight ==
  cfg = committed =>
    /\ pendingFolders \cap Shared(cfg) = {}
    /\ \A s \in pendingFolders : s[2] \notin stale => s[2] \in Known(cfg) /\ s \notin Ignored(cfg)
    /\ pendingDevices \cap Known(cfg) = {}
    /\ pendingDevices \cap cfg.shunned \subseteq stale

\* What a connected device offers is shared, ignored or waits for the user, if the user did not
\* decide otherwise since; and nothing else waits.
OffersShown ==
  \A d \in Devices : Still(d) /\ Connected(d) =>
    LET offered == {<<f, d>> : f \in FoldersIn(theirs[d])}
    IN  /\ offered \subseteq Shared(cfg) \cup Ignored(cfg) \cup pendingFolders \cup moved
        /\ OfDevice(pendingFolders, d) \subseteq offered

\* What an introducer has introduced follows what it shares, when its ClusterConfig was handled:
\* the shares are those it names, and its devices share a folder.
IntroducedFollow ==
  \A i \in (Introducers \ Skipping) \cap Known(cfg) : Still(i) /\ Connected(i) =>
    \A s \in Shares : cfg.shares[s] = i => s \in theirs[i]

PendingAndShares == PendingRight /\ OffersShown /\ IntroducedFollow

\* An introducer takes away only what it has introduced: the user's shares and devices stay, and
\* so do those of other introducers.
TakesOnlyItsOwn ==
  [][\A c \in Conns : Introduce(c) =>
       /\ \A s \in Shares : cfg.shares[s] \notin {Of[c], Nobody} => cfg'.shares[s] = cfg.shares[s]
       /\ \A d \in Devices : cfg.by[d] \notin {Of[c], Nobody} => cfg'.by[d] = cfg.by[d]]_vars

\* The comment on CommitConfiguration: "Ignored folder was removed, reconnect to retrigger the
\* prompt". A folder that is ignored no longer is pending, shared, or its device has been dismissed.
UnignoredPrompts ==
  \A s \in unignored : Still(s[2]) /\ Connected(s[2]) => s \in pendingFolders \/ s \notin theirs[s[2]]

\* "Pausing a device": with the commit its connections are closed, and none is made.
PausedIsDown == cfg = committed => \A c \in Conns : link[c] = "up" => Of[c] \notin cfg.paused
=============================================================================
