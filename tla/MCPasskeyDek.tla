----------------------------- MODULE MCPasskeyDek -----------------------------
(* Two devices, one passkey each (and one passkey added later). *)
EXTENDS PasskeyDek

CONSTANTS d1, d2, c1, c2, c3,
    unlock1, again1, unlock2, recover1, register1, register2, add1, words1,
    drive1, drive2, consume2, shake2, fulfil1, persist1, restore1, check1, check2

MCDevices == {d1, d2}
MCCreds == {c1, c2, c3}
MCOps == {unlock1, again1, unlock2, recover1, register1, register2, add1, words1,
          drive1, drive2, consume2, shake2, fulfil1, persist1, restore1, check1, check2}
OnSecond == {unlock2, register2, drive2, consume2, shake2, check2}
MCDeviceOf == [o \in MCOps |-> IF o \in OnSecond THEN d2 ELSE d1]
MCCredOf == [o \in MCOps |-> IF o \in OnSecond THEN c2 ELSE IF o = add1 THEN c3 ELSE c1]
MCKind == [o \in MCOps |->
    CASE o \in {unlock1, again1, unlock2} -> "unlock"
      [] o = recover1 -> "recover"
      [] o \in {register1, register2} -> "register"
      [] o = add1 -> "add"
      [] o = words1 -> "regenerate"
      [] o \in {drive1, drive2} -> "drive"
      [] o = consume2 -> "consume"
      [] o = shake2 -> "handshake"
      [] o = fulfil1 -> "fulfil"
      [] o = persist1 -> "persist"
      [] o = restore1 -> "restore"
      [] OTHER -> "check"]
MCNewKey(o) == << o >>

Set(calls) == [fresh |-> FALSE, calls |-> calls]
MCPlans == {
    \* a rotation, a second unlock of the same device, the zero-tap cache
    Set({unlock1, again1, drive1, persist1, restore1}),
    \* two rotations, at once or one after the other; a device that is late
    Set({unlock1, drive1, unlock2, consume2, drive2}),
    Set({unlock1, drive1, unlock2, shake2, fulfil1, consume2}),
    \* recovery, a further passkey, new words; the check for an orphan handle
    Set({unlock1, recover1, add1, words1}),
    Set({unlock1, recover1, drive1, check1}),
    \* a new account, set up on both devices
    [fresh |-> TRUE, calls |-> {check1, register1, check2, register2, unlock2}]}
MCMayReject == {unlock1, drive1, consume2, restore1, register1}
MCMayReload == {d1}
===============================================================================
