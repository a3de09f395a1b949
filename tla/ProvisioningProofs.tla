------------------------- MODULE ProvisioningProofs -------------------------
(***************************************************************************)
(* The promises of Provisioning hold for every length of the hold, the     *)
(* window and the command, and for any number of faults and erasures.      *)
(*                                                                         *)
(* The argument: once the flash holds both entries nothing but an erasure  *)
(* writes to it again, because every boot loads them; and credentials are  *)
(* shown only by a task that was started with what the flash holds.        *)
(***************************************************************************)
EXTENDS Provisioning, TLAPS

\* The places of app_main at which its credentials are loaded or stored.
Provided == {"transport", "wifi", "pairing", "server"}

Creating == {"set_password", "set_secret", "commit"}

BootTyped ==
  /\ place \in Booting \cup {"running"}
  /\ flash \in [Keys -> Nat] /\ written \in [Keys -> Nat]
  /\ creds \in [Keys -> Nat] /\ fresh \in BOOLEAN /\ drawn \in Nat

\* What the flash and the memory hold at each place.
StoreInv ==
  /\ place \notin {"set_secret", "commit"} => written = flash
  /\ place \in Creating => Complete(creds) /\ ~Complete(flash)
  /\ place = "set_secret" => written["ap_password"] = creds["ap_password"]
  /\ place = "commit" => written = creds
  /\ place \notin {"pairing", "server", "running"} => ap = Blank
  /\ place \in {"pairing", "server"} => ap = creds["ap_password"]
  /\ place # "running" => secret = Blank
  /\ place \notin {"server", "running"} => task = "none"

ShownInv == \A c \in shown : c = flash /\ Complete(c)

KeptInv == BootTyped /\ StoreInv /\ ShownInv /\ CredentialsAreWhole

\* A window that is open was counted and is not yet used.
WindowInv ==
  /\ now \in Nat /\ deadline \in Nat /\ held \in Nat
  /\ windows \in Nat /\ disclosures \in Nat
  /\ disclosures + (IF deadline > 0 THEN 1 ELSE 0) <= windows

LineInv == command \in Seq(Keyboard) /\ CommandFits

-----------------------------------------------------------------------------
\* A restart with nothing uncommitted leaves the flash as it is.
LEMMA RestartKeepsFlash ==
  ASSUME BootTyped, written = flash, Restart
  PROVE  flash' = flash
<1>1. flash' \in [Keys -> {flash[k] : k \in Keys} \cup {written[k] : k \in Keys}]
  BY DEF Restart, Survivors
<1>2. \A k \in Keys : flash'[k] = flash[k]
  BY DEF Restart, Survivors
<1>3. QED
  BY <1>1, <1>2 DEF BootTyped

\* Whatever the power loss leaves has the type of the flash.
LEMMA RestartTyped ==
  ASSUME BootTyped, Restart
  PROVE  flash' \in [Keys -> Nat]
<1>1. {flash[k] : k \in Keys} \cup {written[k] : k \in Keys} \subseteq Nat
  BY DEF BootTyped
<1>2. flash' \in [Keys -> {flash[k] : k \in Keys} \cup {written[k] : k \in Keys}]
  BY DEF Restart, Survivors
<1>3. QED
  BY <1>1, <1>2

\* A restart keeps the invariant: writes that are not committed exist only
\* while nothing was shown.
LEMMA RestartKeeps ==
  ASSUME KeptInv, Restart
  PROVE  KeptInv'
<1>1. BootTyped'
  BY RestartTyped DEF KeptInv, BootTyped, Restart, Booting, NoCredentials, Blank
<1>2. StoreInv'
  BY DEF Restart, StoreInv, Creating
<1>3. ShownInv'
  <2>1. CASE place \in {"set_secret", "commit"}
    BY <2>1 DEF KeptInv, StoreInv, ShownInv, Creating, Restart
  <2>2. CASE place \notin {"set_secret", "commit"}
    BY <2>2, RestartKeepsFlash DEF KeptInv, StoreInv, ShownInv, Restart
  <2>3. QED
    BY <2>1, <2>2
<1>4. CredentialsAreWhole'
  BY DEF Restart, CredentialsAreWhole
<1>5. QED
  BY <1>1, <1>2, <1>3, <1>4 DEF KeptInv

\* The steps of app_main keep the invariant.
LEMMA BootKeeps ==
  ASSUME KeptInv, Boot
  PROVE  KeptInv'
<1> USE DEF KeptInv, BootTyped, StoreInv, ShownInv, CredentialsAreWhole, Booting,
            Creating, Keys, Complete, Blank, pairingVars
<1>1. CASE NvsInit
  BY <1>1 DEF NvsInit, NoCredentials
<1>2. CASE Load
  BY <1>2 DEF Load, BothStored
<1>3. CASE Draw
  BY <1>3 DEF Draw, BothStored
<1>4. CASE SetEntry("set_password", "ap_password", "set_secret")
  BY <1>4 DEF SetEntry
<1>5. CASE SetEntry("set_secret", "pair_secret", "commit")
  BY <1>5 DEF SetEntry
<1>6. CASE Commit
  BY <1>6 DEF Commit, Committed
<1>7. CASE StartTransport
  BY <1>7 DEF StartTransport
<1>8. CASE StartWifi
  BY <1>8 DEF StartWifi
<1>9. CASE StartPairing
  BY <1>9 DEF StartPairing
<1>10. CASE StartServer
  BY <1>10 DEF StartServer, NoCredentials
<1>11. QED
  BY <1>1, <1>2, <1>3, <1>4, <1>5, <1>6, <1>7, <1>8, <1>9, <1>10 DEF Boot, LoadOrCreate

\* The pairing task shows what it was started with.
LEMMA PairingKeeps ==
  ASSUME KeptInv, Pairing \/ Tick
  PROVE  KeptInv'
<1>1. UNCHANGED bootVars /\ copy' = copy /\ (task # "none" <=> task' # "none")
  BY DEF Pairing, Tick, Sample, TypeCharacter, TypeReturn, PassEnds
<1>2. shown' = shown \/ (task = "read" /\ shown' = shown \cup {copy})
  BY DEF Pairing, Tick, Sample, TypeCharacter, TypeReturn, PassEnds, Disclose
<1>3. BootTyped' /\ StoreInv' /\ CredentialsAreWhole'
  BY <1>1 DEF bootVars, KeptInv, BootTyped, StoreInv, CredentialsAreWhole
<1>4. task = "read" => copy = flash /\ Complete(flash)
  BY DEF KeptInv, StoreInv, CredentialsAreWhole
<1>5. ShownInv'
  BY <1>1, <1>2, <1>4 DEF bootVars, KeptInv, ShownInv
<1>6. QED
  BY <1>3, <1>5 DEF KeptInv

\* The inductive invariant of the credentials, across reboots.
LEMMA CredentialsKept == ProvSpec => []KeptInv
<1>1. ProvInit => KeptInv
  <2> SUFFICES ASSUME ProvInit PROVE KeptInv
    OBVIOUS
  <2>1. BootTyped
    BY DEF ProvInit, BootTyped, Booting, NoCredentials, Blank
  <2>2. StoreInv /\ ShownInv /\ CredentialsAreWhole
    BY DEF ProvInit, StoreInv, ShownInv, CredentialsAreWhole, Creating
  <2>3. QED
    BY <2>1, <2>2 DEF KeptInv
<1>2. KeptInv /\ [ProvNext]_provVars => KeptInv'
  <2> SUFFICES ASSUME KeptInv, [ProvNext]_provVars PROVE KeptInv'
    OBVIOUS
  <2>1. CASE Boot
    BY <2>1, BootKeeps
  <2>2. CASE Pairing \/ Tick
    BY <2>2, PairingKeeps
  <2>3. CASE PowerLoss \/ BootFails
    BY <2>3, RestartKeeps DEF PowerLoss, BootFails
  <2>4. CASE UNCHANGED provVars
    BY <2>4 DEF provVars, bootVars, pairingVars, KeptInv, BootTyped, StoreInv, ShownInv,
                CredentialsAreWhole
  <2>5. QED
    BY <2>1, <2>2, <2>3, <2>4 DEF ProvNext
<1>3. QED
  BY <1>1, <1>2, PTL DEF ProvSpec

\* The parts run on whole credentials, those the flash holds for good,
\* whatever moment of bridge_credentials_load_or_create a reset hits.
THEOREM NeverHalfProvisioned == ProvSpec => []CredentialsAreWhole
<1>1. KeptInv => CredentialsAreWhole
  BY DEF KeptInv
<1>2. QED
  BY <1>1, CredentialsKept, PTL

\* A client that paired keeps its access over any number of power losses at
\* any moments, until the flash is erased.
THEOREM PairingSurvives == ProvSpec => []PairedStaysPaired
<1>1. KeptInv => PairedStaysPaired
  <2> SUFFICES ASSUME KeptInv, NEW c \in shown
               PROVE  /\ flash = c
                      /\ ap \in {Blank, c["ap_password"]}
                      /\ secret \in {Blank, c["pair_secret"]}
    BY DEF PairedStaysPaired
  <2>1. flash = c
    BY DEF KeptInv, ShownInv
  <2>2. QED
    BY <2>1 DEF KeptInv, BootTyped, StoreInv, CredentialsAreWhole, Booting
<1>2. QED
  BY <1>1, CredentialsKept, PTL

-----------------------------------------------------------------------------
\* One disclosure per window, for every HoldPasses and Window: opening counts
\* a window, a disclosure closes it.
THEOREM WindowsAreSpent == ProvSpec => []OneDisclosurePerWindow
<1>1. ProvInit => WindowInv
  BY DEF ProvInit, WindowInv
<1>2. WindowInv /\ [ProvNext]_provVars => WindowInv'
  <2> SUFFICES ASSUME WindowInv, [ProvNext]_provVars PROVE WindowInv'
    OBVIOUS
  <2> USE ProvisioningAssumption DEF WindowInv
  <2>1. CASE Restart
    BY <2>1 DEF Restart
  <2>2. CASE UNCHANGED pairingVars
    BY <2>2 DEF pairingVars
  <2>3. CASE StartPairing
    BY <2>3 DEF StartPairing
  <2>4. CASE Sample
    <3>1. PICK level \in BOOLEAN :
            LET h == IF level THEN held + 1 ELSE 0 IN
              /\ held' = h
              /\ deadline' = IF h = HoldPasses THEN now + Window ELSE deadline
              /\ windows' = windows + (IF h = HoldPasses THEN 1 ELSE 0)
      BY <2>4 DEF Sample
    <3>2. now' = now /\ disclosures' = disclosures
      BY <2>4 DEF Sample
    <3>3. QED
      BY <3>1, <3>2
  <2>5. CASE \E byte \in Keyboard : TypeCharacter(byte)
    BY <2>5 DEF TypeCharacter
  <2>6. CASE TypeReturn
    BY <2>6 DEF TypeReturn, Disclose, Allowed, WindowClosed
  <2>7. CASE PassEnds
    BY <2>7 DEF PassEnds
  <2>8. CASE Tick
    BY <2>8 DEF Tick
  <2>9. CASE Boot
    BY <2>2, <2>3, <2>9 DEF Boot, LoadOrCreate, NvsInit, Load, Draw, SetEntry, Commit, Committed,
                           StartTransport, StartWifi, StartServer
  <2>10. CASE UNCHANGED provVars
    BY <2>2, <2>10 DEF provVars
  <2>11. QED
    BY <2>1, <2>4, <2>5, <2>6, <2>7, <2>8, <2>9, <2>10
       DEF ProvNext, Pairing, PowerLoss, BootFails
<1>3. WindowInv => OneDisclosurePerWindow
  BY DEF WindowInv, OneDisclosurePerWindow
<1>4. QED
  BY <1>1, <1>2, <1>3, PTL DEF ProvSpec

\* The console never writes past command[16], for every size of the buffer.
THEOREM LinesFit == ProvSpec => []CommandFits
<1> USE ProvisioningAssumption
<1>1. ProvInit => LineInv
  BY DEF ProvInit, LineInv, CommandFits
<1>2. LineInv /\ [ProvNext]_provVars => LineInv'
  <2> SUFFICES ASSUME LineInv, [ProvNext]_provVars PROVE LineInv'
    OBVIOUS
  <2>1. CASE command' = command
    BY <2>1 DEF LineInv, CommandFits
  <2>2. CASE command' = << >>
    BY <2>2 DEF LineInv, CommandFits
  <2>3. CASE \E byte \in Keyboard : TypeCharacter(byte)
    <3>1. PICK byte \in Keyboard : TypeCharacter(byte)
      BY <2>3
    <3>2. CASE Len(command) + 1 < CommandSize
      BY <3>1, <3>2 DEF TypeCharacter, Appended, LineInv, CommandFits
    <3>3. CASE ~(Len(command) + 1 < CommandSize)
      BY <2>2, <3>1, <3>3 DEF TypeCharacter, Appended
    <3>4. QED
      BY <3>2, <3>3
  <2>4. CASE Boot
    BY <2>1, <2>4 DEF Boot, LoadOrCreate, NvsInit, Load, Draw, SetEntry, Commit, Committed,
                      StartTransport, StartWifi, StartPairing, StartServer, pairingVars
  <2>5. CASE Sample \/ TypeReturn \/ PassEnds \/ Tick
    BY <2>1, <2>2, <2>5 DEF Sample, TypeReturn, PassEnds, Tick
  <2>6. CASE PowerLoss \/ BootFails
    BY <2>2, <2>6 DEF PowerLoss, BootFails, Restart
  <2>7. CASE UNCHANGED provVars
    BY <2>1, <2>7 DEF provVars, pairingVars
  <2>8. QED
    BY <2>3, <2>4, <2>5, <2>6, <2>7 DEF ProvNext, Pairing
<1>3. LineInv => CommandFits
  BY DEF LineInv
<1>4. QED
  BY <1>1, <1>2, <1>3, PTL DEF ProvSpec

=============================================================================
