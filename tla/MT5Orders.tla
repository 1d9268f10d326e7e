-------------------------------- MODULE MT5Orders --------------------------------
(***************************************************************************)
(* How much the bridge orders for an approved size                         *)
(* (agents/execution/mt5_bridge.py, _resolve_volume and _clamp_volume).    *)
(* Operators only.  Volumes are integers in hundredths of a lot, to which  *)
(* the code rounds; a price is that of a hundredth of a lot.  The quantity *)
(* the code quantizes to eight digits on the way is exact here.            *)
(***************************************************************************)
EXTENDS Integers

CONSTANTS
    VolumeStep,  \* mt5.volume_step
    MinVolume,   \* mt5.min_volume
    MaxVolume    \* mt5.max_volume

\* core/config.py relates none of the three to another.
ASSUME VolumeAssumption ==
    /\ VolumeStep \in Nat \ {0}
    /\ MinVolume \in Nat \ {0}
    /\ MaxVolume \in Nat \ {0}

\* Python's round: to the nearest integer, from the middle to the even one.
RoundHalfEven(a, b) ==
    LET down == a \div b
        rest == 2 * (a % b)
    IN  IF rest < b \/ (rest = b /\ down % 2 = 0) THEN down ELSE down + 1

\* Wrong: any part of a step counts as one.
ClampVolumeUp(size, price) ==
    LET stepped == VolumeStep * ((size + price * VolumeStep - 1) \div (price * VolumeStep))
        atLeast == IF stepped < MinVolume THEN MinVolume ELSE stepped
    IN  IF atLeast > MaxVolume THEN MaxVolume ELSE atLeast

\* _clamp_volume of size / price: the nearest step, then the floor, then the cap.
ClampVolume(size, price) ==
    LET stepped == VolumeStep * RoundHalfEven(size, price * VolumeStep)
        atLeast == IF stepped < MinVolume THEN MinVolume ELSE stepped
    IN  IF atLeast > MaxVolume THEN MaxVolume ELSE atLeast

\* _resolve_volume: no order without a size or a reference price, that of the
\* proposal's technical signal; Risk never sets approved_quantity.
Volumes(size, price) ==
    IF size > 0 /\ price > 0 THEN {ClampVolume(size, price)} ELSE {}
================================================================================
