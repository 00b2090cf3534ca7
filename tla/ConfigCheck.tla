---------------------------- MODULE ConfigCheck ----------------------------
(***************************************************************************)
(* From the controls of the simulator's page to a configuration that the   *)
(* firmware accepts.  The page clamps what is typed into a control to the  *)
(* schema's limits, the server validates the values as they are, writes    *)
(* them rounded into a C header, and ir_spoke_config_validate decides when *)
(* the sensor starts.                                                      *)
(*                                                                         *)
(* Numbers that the header writes as integers are in tenths here, those it *)
(* writes as fractions (duties and the ratio) in hundredths.  The limits   *)
(* and defaults that come from config/system.json are its values.          *)
(***************************************************************************)
EXTENDS Integers

CONSTANTS Typed,        \* what the user types into each control
          MaxTyped      \* bound: controls changed

VARIABLES control,      \* the values of the page
          changes

configVars == <<control, changes>>

(* Default, minimum and maximum of the controls that reach the firmware.   *)
Schema ==
  [tx_gpio |-> <<10, 0, 480>>,              rx_gpio |-> <<20, 0, 480>>,
   carrier |-> <<380000, 250000, 500000>>,  duty |-> <<50, 20, 80>>,
   resolution |-> <<10000000, 4000000, 40000000>>,
   mem |-> <<640, 480, 5120>>,              queue |-> <<20, 10, 80>>,
   ratio |-> <<66, 50, 90>>,                demod_duty |-> <<50, 20, 80>>,
   glitch |-> <<30, 10, 90>>,               blocked_min |-> <<700, 200, 2500>>,
   blocked_max |-> <<6000, 2500, 15000>>,   link_loss |-> <<150000, 20000, 300000>>,
   count_min |-> <<160, 80, 320>>,          count_max |-> <<480, 240, 640>>]

Fractions == {"duty", "ratio", "demod_duty"}
Controls == DOMAIN Schema

ASSUME ConfigAssumption ==
  /\ Typed \in [Controls -> SUBSET Int]
  /\ MaxTyped \in Nat

Clamp(key, n) ==
  CASE n < Schema[key][2] -> Schema[key][2]
    [] n > Schema[key][3] -> Schema[key][3]
    [] OTHER -> n

ConfigInit == control = [key \in Controls |-> Schema[key][1]] /\ changes = 0

Type(key, n) ==
  /\ changes < MaxTyped
  /\ control' = [control EXCEPT ![key] = Clamp(key, n)]
  /\ changes' = changes + 1

ConfigNext == \E key \in Controls : \E n \in Typed[key] : Type(key, n)

ConfigSpec == ConfigInit /\ [][ConfigNext]_configVars

-----------------------------------------------------------------------------
(* int() cuts, round() goes to the nearest and from a half to the even.    *)
Cut(tenths) == tenths \div 10

Rounded(tenths) ==
  LET n == tenths \div 10  rest == tenths % 10
  IN  IF rest > 5 \/ (rest = 5 /\ n % 2 = 1) THEN n + 1 ELSE n

(* generated_config_header *)
Header(v) == [key \in Controls |-> IF key \in Fractions THEN v[key] ELSE Rounded(v[key])]

(* Plausible slip: equal limits of the blockage pass. *)
ValidatesEqualLimits(v) ==
  /\ Cut(v.tx_gpio) # Cut(v.rx_gpio)
  /\ v.resolution >= 8 * v.carrier
  /\ Cut(v.mem) \in 48..512 /\ Cut(v.queue) \in 1..8
  /\ v.glitch * v.carrier < 50000000
  /\ v.blocked_min <= v.blocked_max /\ v.blocked_max < v.link_loss
  /\ Cut(v.count_min) < Cut(v.count_max)

(* validate_code_parameters; glitch times carrier is below half a million. *)
Validates(v) ==
  /\ Cut(v.tx_gpio) # Cut(v.rx_gpio)
  /\ v.resolution >= 8 * v.carrier
  /\ Cut(v.mem) \in 48..512 /\ Cut(v.queue) \in 1..8
  /\ v.glitch * v.carrier < 50000000
  /\ v.blocked_min < v.blocked_max /\ v.blocked_max < v.link_loss
  /\ Cut(v.count_min) < Cut(v.count_max)

(* ir_spoke_config_validate *)
FirmwareAccepts(c) ==
  /\ c.tx_gpio \in 0..48 /\ c.rx_gpio \in 0..48 /\ c.tx_gpio # c.rx_gpio
  /\ c.carrier >= 25000 /\ c.carrier <= 50000
  /\ c.duty \in 20..80
  /\ c.resolution >= 8 * c.carrier /\ c.resolution <= 80000000
  /\ c.mem \in 48..512 /\ c.queue \in 1..8
  /\ c.ratio >= 50 /\ c.ratio < 100
  /\ c.demod_duty \in 20..80
  /\ c.glitch # 0 /\ c.glitch * c.carrier < 500000
  /\ c.blocked_min # 0 /\ c.blocked_min < c.blocked_max
  /\ c.link_loss > c.blocked_max

-----------------------------------------------------------------------------
(* local_server.py, validate_code_parameters: a header the server hands    *)
(* out for values the page can send is one ir_spoke_config_validate        *)
(* accepts, as long as the values are whole numbers; a typed fraction may  *)
(* be cut for the comparison and rounded for the header.                   *)
HeaderAcceptedByFirmware ==
  (\A key \in Controls \ Fractions : control[key] % 10 = 0) /\ Validates(control)
    => FirmwareAccepts(Header(control))

(* What the docstring of validate_code_parameters says without that        *)
(* condition: combinations that make no valid configuration are rejected.  *)
InvalidIsRejected == Validates(control) => FirmwareAccepts(Header(control))
=============================================================================
