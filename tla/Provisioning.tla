---------------------------- MODULE Provisioning ----------------------------
(***************************************************************************)
(* How the bridge gets, keeps and hands out its credentials.               *)
(*                                                                         *)
(* app_main (bridge_main.c) starts the parts one after the other and every *)
(* error of a start restarts the chip (ESP_ERROR_CHECK).  One of the steps *)
(* is bridge_credentials_load_or_create, which reads the access point's    *)
(* password and the pairing secret from flash, or draws both and stores    *)
(* them with two writes and a commit.  The pairing task, which runs while  *)
(* the boot goes on, shows the credentials on the USB console when PAIR is *)
(* typed inside a pairing window with the BOOT button held.                *)
(*                                                                         *)
(* The chip may lose its power between any two steps.  A value written to  *)
(* flash and not committed may or may not be there afterwards.             *)
(***************************************************************************)
EXTENDS Naturals, Sequences

CONSTANTS
  HoldPasses,   \* passes of the pairing task the button is held to open a window
  Window,       \* BRIDGE_PAIRING_WINDOW_MS, in passes
  Command,      \* the characters of PAIR
  CommandSize,  \* sizeof(command), the terminator included
  Keyboard,     \* the characters the console may receive, the line end aside
  MaxFaults,    \* bound: power losses and failing starts of one behaviour
  MaxErasures,  \* bound: times the flash is found unusable and erased
  MaxTime       \* bound: passes of time after one boot

ASSUME ProvisioningAssumption ==
  /\ HoldPasses \in Nat \ {0} /\ Window \in Nat \ {0}
  /\ CommandSize \in Nat \ {0} /\ Command \in Seq(Keyboard)
  /\ Len(Command) < CommandSize
  /\ MaxFaults \in Nat /\ MaxErasures \in Nat /\ MaxTime \in Nat

VARIABLES
  place,       \* the step of app_main that comes next
  flash,       \* what the flash holds for good
  written,     \* what a read returns: flash and the writes not yet committed
  creds,       \* app_main's BridgeCredentials
  fresh,       \* its newly_created
  drawn,       \* how often credentials were drawn; the n-th draw is n
  ap,          \* the password the access point asks for, Blank when it is down
  secret,      \* the secret the server authenticates with, Blank when it is down
  task,        \* the pairing task: "none", "sleep" or "read"
  copy,        \* its copy of the credentials
  now,         \* esp_timer_get_time, in passes
  wake,        \* when vTaskDelay returns
  deadline,    \* context->deadline_us
  held,        \* held_ms, in passes
  button,      \* button_held, sampled once per pass
  command,     \* the characters of the line typed so far
  shown,       \* history: credentials shown since the last erasure
  windows,     \* history: windows opened since the boot
  disclosures, \* history: times the credentials were shown since the boot
  faults,      \* counts the faults, for the bound
  erasures     \* counts the erasures, for the bound

bootVars == <<place, flash, written, creds, fresh, drawn, ap, secret, faults, erasures>>
pairingVars == <<task, copy, now, wake, deadline, held, button, command,
                 windows, disclosures>>
provVars == <<bootVars, pairingVars, shown>>

Keys == {"ap_password", "pair_secret"}

Blank == 0

NoCredentials == [k \in Keys |-> Blank]

Complete(c) == \A k \in Keys : c[k] # Blank

-----------------------------------------------------------------------------
(***************************************************************************)
(* The boot.                                                               *)
(***************************************************************************)

Booting == {"nvs", "load", "set_password", "set_secret", "commit",
            "transport", "wifi", "pairing", "server"}

ProvInit ==
  /\ place = "nvs"
  /\ flash = NoCredentials /\ written = NoCredentials
  /\ creds = NoCredentials /\ fresh = FALSE
  /\ ap = Blank /\ secret = Blank
  /\ task = "none" /\ copy = NoCredentials
  /\ now = 0 /\ wake = 0 /\ deadline = 0 /\ held = 0
  /\ button = FALSE /\ command = << >>
  /\ windows = 0 /\ disclosures = 0
  /\ drawn = 0 /\ shown = {} /\ faults = 0 /\ erasures = 0

\* What a restart leaves of the writes that were not committed.
Survivors == {f \in [Keys -> {flash[k] : k \in Keys} \cup {written[k] : k \in Keys}] :
                \A k \in Keys : f[k] \in {flash[k], written[k]}}

\* The chip starts again: nothing but the flash is kept.
Restart ==
  /\ place' = "nvs"
  /\ flash' \in Survivors
  /\ written' = flash'
  /\ creds' = NoCredentials /\ fresh' = FALSE
  /\ ap' = Blank /\ secret' = Blank
  /\ task' = "none" /\ copy' = NoCredentials
  /\ now' = 0 /\ wake' = 0 /\ deadline' = 0 /\ held' = 0
  /\ button' = FALSE /\ command' = << >>
  /\ windows' = 0 /\ disclosures' = 0
  /\ UNCHANGED <<drawn, shown, erasures>>

\* The power is lost, at any moment.
PowerLoss ==
  /\ faults < MaxFaults
  /\ faults' = faults + 1
  /\ Restart

\* A step of the boot returns an error: ESP_ERROR_CHECK restarts the chip.  The
\* errors pass, within MaxFaults: on a flash whose entries can never be read
\* again the code would restart for ever.
BootFails ==
  /\ place \in Booting
  /\ faults < MaxFaults
  /\ faults' = faults + 1
  /\ Restart

\* nvs_flash_init finds the flash usable, or not usable and erases it.
NvsInit ==
  /\ place = "nvs"
  /\ place' = "load"
  /\ UNCHANGED <<creds, fresh, drawn, ap, secret, faults, pairingVars>>
  /\ \/ UNCHANGED <<flash, written, shown, erasures>>
     \/ /\ erasures < MaxErasures
        /\ erasures' = erasures + 1
        /\ flash' = NoCredentials /\ written' = NoCredentials
        /\ shown' = {}

\* Mutant: one credential found is enough.
EitherStored == \E k \in Keys : written[k] # Blank

\* Both entries were read, with the sizes they should have.
BothStored == Complete(written)

Load ==
  /\ place = "load"
  /\ BothStored
  /\ creds' = written
  /\ place' = "transport"
  /\ UNCHANGED <<flash, written, fresh, drawn, ap, secret, faults, erasures,
                 pairingVars, shown>>

\* Mutant: a single missing entry is an error of the load.
DrawWhenEmpty ==
  /\ place = "load"
  /\ ~BothStored
  /\ IF written = NoCredentials
       THEN /\ drawn' = drawn + 1
            /\ creds' = [k \in Keys |-> drawn']
            /\ place' = "set_password"
            /\ UNCHANGED <<flash, written, fresh, ap, secret, faults, erasures,
                           pairingVars, shown>>
       ELSE Restart /\ UNCHANGED faults

\* An entry is missing, or both are: both are drawn anew.
Draw ==
  /\ place = "load"
  /\ ~BothStored
  /\ drawn' = drawn + 1
  /\ creds' = [k \in Keys |-> drawn']
  /\ place' = "set_password"
  /\ UNCHANGED <<flash, written, fresh, ap, secret, faults, erasures, pairingVars, shown>>

SetEntry(from, key, to) ==
  /\ place = from
  /\ written' = [written EXCEPT ![key] = creds[key]]
  /\ place' = to
  /\ UNCHANGED <<flash, creds, fresh, drawn, ap, secret, faults, erasures,
                 pairingVars, shown>>

\* Mutant: the commit is forgotten.
CommitForgotten == flash

\* What nvs_commit leaves in the flash.
Committed == written

Commit ==
  /\ place = "commit"
  /\ flash' = Committed
  /\ fresh' = TRUE
  /\ place' = "transport"
  /\ UNCHANGED <<written, creds, drawn, ap, secret, faults, erasures,
                 pairingVars, shown>>

LoadOrCreate ==
  \/ Load \/ Draw
  \/ SetEntry("set_password", "ap_password", "set_secret")
  \/ SetEntry("set_secret", "pair_secret", "commit")
  \/ Commit

StartTransport ==
  /\ place = "transport"
  /\ place' = "wifi"
  /\ UNCHANGED <<flash, written, creds, fresh, drawn, ap, secret, faults, erasures,
                 pairingVars, shown>>

StartWifi ==
  /\ place = "wifi"
  /\ ap' = creds["ap_password"]
  /\ place' = "pairing"
  /\ UNCHANGED <<flash, written, creds, fresh, drawn, secret, faults, erasures,
                 pairingVars, shown>>

\* The first boot opens a window by itself.
StartPairing ==
  /\ place = "pairing"
  /\ task' = "sleep"
  /\ copy' = creds
  /\ deadline' = IF fresh THEN now + Window ELSE 0
  /\ windows' = windows + (IF fresh THEN 1 ELSE 0)
  /\ place' = "server"
  /\ UNCHANGED <<flash, written, creds, fresh, drawn, ap, secret, faults, erasures,
                 now, wake, held, button, command, disclosures, shown>>

\* The server takes its copy of the secret and app_main clears its own.
StartServer ==
  /\ place = "server"
  /\ secret' = creds["pair_secret"]
  /\ creds' = NoCredentials /\ fresh' = FALSE
  /\ place' = "running"
  /\ UNCHANGED <<flash, written, drawn, ap, faults, erasures, pairingVars, shown>>

Boot == NvsInit \/ LoadOrCreate \/ StartTransport \/ StartWifi \/ StartPairing \/ StartServer

-----------------------------------------------------------------------------
(***************************************************************************)
(* The pairing task.  A pass samples the button, reads what the console    *)
(* has and sleeps; the button may be released while the pass reads on.     *)
(***************************************************************************)

\* A pass begins: the button is sampled, and a hold of exactly HoldPasses
\* passes opens a window.
Sample ==
  /\ task = "sleep"
  /\ now >= wake
  /\ \E level \in BOOLEAN :
       LET h == IF level THEN held + 1 ELSE 0 IN
       /\ button' = level
       /\ held' = h
       /\ deadline' = IF h = HoldPasses THEN now + Window ELSE deadline
       /\ windows' = windows + (IF h = HoldPasses THEN 1 ELSE 0)
  /\ task' = "read"
  /\ UNCHANGED <<bootVars, copy, now, wake, command, disclosures, shown>>

\* Mutant: the room for the terminator is forgotten.
AppendedWithoutTerminator(byte) ==
  IF Len(command) < CommandSize THEN Append(command, byte) ELSE << >>

\* A character of the line; one that does not fit empties the line.
Appended(byte) ==
  IF Len(command) + 1 < CommandSize THEN Append(command, byte) ELSE << >>

TypeCharacter(byte) ==
  /\ task = "read"
  /\ command' = Appended(byte)
  /\ UNCHANGED <<bootVars, task, copy, now, wake, deadline, held, button,
                 windows, disclosures, shown>>

Allowed == command = Command /\ now < deadline /\ button

\* Mutant: the window stays open after the disclosure.
DeadlineStays == deadline

\* The deadline after a disclosure: the window is closed.
WindowClosed == 0

\* The credentials are shown and the window closes.
Disclose ==
  IF Allowed
    THEN /\ shown' = shown \cup {copy}
         /\ disclosures' = disclosures + 1
         /\ deadline' = WindowClosed
    ELSE UNCHANGED <<shown, disclosures, deadline>>

TypeReturn ==
  /\ task = "read"
  /\ Disclose
  /\ command' = << >>
  /\ UNCHANGED <<bootVars, task, copy, now, wake, held, button, windows>>

\* The console is empty: the pass ends (the last pass within MaxTime reads on).
PassEnds ==
  /\ task = "read"
  /\ now < MaxTime
  /\ task' = "sleep"
  /\ wake' = now + 1
  /\ UNCHANGED <<bootVars, copy, now, deadline, held, button, command,
                 windows, disclosures, shown>>

\* Time passes; before the pairing task runs nothing reads the clock.
Tick ==
  /\ task # "none"
  /\ now < MaxTime
  /\ now' = now + 1
  /\ UNCHANGED <<bootVars, task, copy, wake, deadline, held, button, command,
                 windows, disclosures, shown>>

Pairing == Sample \/ (\E byte \in Keyboard : TypeCharacter(byte)) \/ TypeReturn \/ PassEnds

ProvNext == Boot \/ Pairing \/ Tick \/ PowerLoss \/ BootFails

ProvSpec == ProvInit /\ [][ProvNext]_provVars

\* The scheduler runs app_main: its step that is ready is taken in the end.
FairProvSpec == ProvSpec /\ WF_provVars(Boot)

-----------------------------------------------------------------------------
(***************************************************************************)
(* What provisioning promises.                                             *)
(***************************************************************************)

\* A client that was shown the credentials (pairing_service.c:64) keeps its
\* access over every later boot, whenever the power is lost: the flash, the
\* access point and the server hold exactly what was shown, until an erasure.
PairedStaysPaired ==
  \A c \in shown :
    /\ flash = c
    /\ ap \in {Blank, c["ap_password"]}
    /\ secret \in {Blank, c["pair_secret"]}

\* The access point and the server never run on half of the credentials: a
\* reset between the two writes (bridge_credentials.c:55-63) leaves no
\* configuration with a blank password or a blank secret, and what the parts
\* use is what the flash holds for good.
CredentialsAreWhole ==
  /\ place \in {"transport", "wifi", "pairing", "server"} => Complete(creds) /\ creds = flash
  /\ place = "running" => Complete(flash) /\ ap = flash["ap_password"]
                                          /\ secret = flash["pair_secret"]
  /\ task # "none" => copy = flash

\* A window is good for one disclosure (README: "The pairing window then
\* closes"): however the line, the button and the time race, the credentials
\* are not shown more often than windows were opened.
OneDisclosurePerWindow == disclosures <= windows

\* The line being typed and its terminator fit command[16].
CommandFits == Len(command) < CommandSize

\* Once the faults stop, the bridge comes up: no moment at which the power is
\* lost leaves a flash on which every later boot fails.
BootRecovers == <>[](place = "running")

=============================================================================
