------------------------ MODULE CommonFaultInjectors ------------------------
(***************************************************************************)
(* The hardware fault injectors of runtime_lib/CommonFaultInjectors.cpp    *)
(* and the registry of runtime_lib/FaultInjectorManager.cpp that resolves  *)
(* fi_type.  A register is the set of the bits of its buffer that are 1:   *)
(* bit b of the set is bit b % 8 of byte b / 8 of the code's char buffer.  *)
(***************************************************************************)
EXTENDS Integers

(* The names the three RegisterFaultInjector statics add to the manager. *)
RegisteredInjectors == {"bitflip", "stuck_at_0", "stuck_at_1"}

(* BitFlipFI: the bit is XORed with 1. *)
BitFlip(value, fi_bit) == (value \ {fi_bit}) \cup ({fi_bit} \ value)

(* StuckAt0FI: the value is ANDed with a mask whose only 0 is the bit. *)
StuckAt0(value, fi_bit) == value \ {fi_bit}

(* StuckAt1FI: the value is ORed with the bit. *)
StuckAt1(value, fi_bit) == value \cup {fi_bit}

(* injectFaultImpl looks fi_type up and calls the injector's injectFault.  *)
(* An unknown name ends the process: see Known.                            *)
InjectFaultImpl(fi_type, value, fi_bit) ==
  CASE fi_type = "bitflip"    -> BitFlip(value, fi_bit)
    [] fi_type = "stuck_at_0" -> StuckAt0(value, fi_bit)
    [] fi_type = "stuck_at_1" -> StuckAt1(value, fi_bit)

(* getFaultInjector finds the name, or calls exit(1). *)
Known(fi_type) == fi_type \in RegisteredInjectors
=============================================================================
