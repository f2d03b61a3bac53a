--------------------------------- MODULE Boot ---------------------------------
(***************************************************************************)
(* A start of the device, as user_init_normal of app.c orders it: init_ble *)
(* finds or draws the public address and starts advertising under it, and  *)
(* only then init_flash reads the settings.  Both keep their bytes in      *)
(* sectors of the same flash, and the power may fail in any program.       *)
(***************************************************************************)
EXTENDS Settings

CONSTANTS
  CFG_ADR_MAC,     \* 0x76000: six bytes of public address and two more
  Company,         \* the address bytes 38 C1 A4
  PublicDraws,     \* what generateRandomNum may give for the public address
  StaticDraws      \* and for the two bytes of the random static one

ASSUME BootAssumption ==
  /\ CFG_ADR_MAC \in Nat
  /\ \A i \in 0..7 : /\ CFG_ADR_MAC + i < FlashSize
                     /\ PageOf(CFG_ADR_MAC + i) = PageOf(CFG_ADR_MAC)
  /\ SectorOf(CFG_ADR_MAC) # SectorOf(Address)
  /\ Company \in [3..5 -> Byte] /\ \E i \in 3..5 : Company[i] # Erased
  /\ PublicDraws \subseteq [0..2 -> Byte] /\ StaticDraws \subseteq [0..1 -> Byte]

VARIABLES
  stage,           \* inside init_ble: "read", "public", "static"; then "done"
  mac_public,
  advertised       \* history: every address the device has advertised under

identity == <<stage, mac_public, advertised>>
boot_vars == <<vars, identity>>

PublicAddress == [0..5 -> Byte]
NoAddress == [i \in 0..5 |-> {}]

BootTypeOK ==
  /\ TypeOK
  /\ stage \in {"read", "public", "static", "done"}
  /\ mac_public \in PublicAddress
  /\ advertised \subseteq PublicAddress
  /\ stage # "done" => pc = "boot"
-----------------------------------------------------------------------------
(* blc_initMacAddress *)

\* What follows the public address: the two bytes behind it are drawn when
\* they were erased at the first read; then init_ble advertises.
Advertise(address) ==
  /\ stage' = "done"
  /\ advertised' = advertised \union {address}
AfterPublic(address) ==
  IF \A i \in {6, 7} : flash[CFG_ADR_MAC + i] = Erased
  THEN stage' = "static" /\ UNCHANGED advertised
  ELSE Advertise(address)

Settled == UNCHANGED <<settings, pc, saves>>

\* The address in flash is taken unless all six bytes are erased.
TakeAddress ==
  /\ stage = "read"
  /\ \E i \in 0..5 : flash[CFG_ADR_MAC + i] # Erased
  /\ mac_public' = flash_read_page(flash, CFG_ADR_MAC, 6)
  /\ AfterPublic(mac_public')
  /\ UNCHANGED flash /\ Settled

DrawAddress(draw) ==
  /\ stage = "read"
  /\ \A i \in 0..5 : flash[CFG_ADR_MAC + i] = Erased
  /\ mac_public' = [i \in 0..5 |-> IF i < 3 THEN draw[i] ELSE Company[i]]
  /\ stage' = "public"
  /\ UNCHANGED <<flash, advertised>> /\ Settled

\* Mutant: only the drawn bytes are programmed.
ProgramDrawn ==
  /\ stage = "public"
  /\ flash' = flash_write_page(flash, CFG_ADR_MAC, 3, mac_public)
  /\ AfterPublic(mac_public)
  /\ UNCHANGED mac_public /\ Settled

ProgramPublic ==
  /\ stage = "public"
  /\ flash' = flash_write_page(flash, CFG_ADR_MAC, 6, mac_public)
  /\ AfterPublic(mac_public)
  /\ UNCHANGED mac_public /\ Settled

ProgramStatic(draw) ==
  /\ stage = "static"
  /\ flash' = flash_write_page(flash, CFG_ADR_MAC + 6, 2, draw)
  /\ Advertise(mac_public)
  /\ UNCHANGED mac_public /\ Settled

\* Mutant of SettingsStep: the settings are read and saved while the address
\* is not settled yet.
SettingsAnyTime ==
  (init_flash \/ Erase \/ Program \/ SaveDefaults \/ SaveCurrent) /\ UNCHANGED identity

\* init_flash follows init_ble; the commands come from main_loop.
SettingsStep ==
  /\ stage = "done"
  /\ init_flash \/ Erase \/ Program \/ SaveDefaults \/ SaveCurrent
  /\ UNCHANGED identity

\* The power fails, in mid program of the address as well.
TornProgram ==
  \/ /\ stage \in {"read", "done"}
     /\ PowerLoss
  \/ /\ stage = "public"
     /\ flash' \in Torn(flash_write_page(flash, CFG_ADR_MAC, 6, mac_public), flash)
     /\ Settled
  \/ /\ stage = "static"
     /\ \E draw \in StaticDraws :
          flash' \in Torn(flash_write_page(flash, CFG_ADR_MAC + 6, 2, draw), flash)
     /\ Settled

BootAgain ==
  /\ TornProgram
  /\ stage' = "read"
  /\ mac_public' = NoAddress
  /\ UNCHANGED advertised
-----------------------------------------------------------------------------
BootInit ==
  /\ Init
  /\ stage = "read"
  /\ mac_public = NoAddress
  /\ advertised = {}

BootNext ==
  \/ TakeAddress \/ ProgramPublic
  \/ \E draw \in PublicDraws : DrawAddress(draw)
  \/ \E draw \in StaticDraws : ProgramStatic(draw)
  \/ SettingsStep \/ BootAgain

BootSpec == BootInit /\ [][BootNext]_boot_vars
-----------------------------------------------------------------------------
(* Properties *)

\* A device keeps its public address: whatever power failures interrupt the
\* boots in which it is drawn and programmed, it has never advertised under two.
OneAddress == \A a, b \in advertised : a = b
=============================================================================
