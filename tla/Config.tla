------------------------------- MODULE Config -------------------------------
(***************************************************************************)
(* Config::load (src/src/common/Config.cpp): the lines of the file, one    *)
(* after the other, change the options of the client, the devices and the  *)
(* points, from which the configuration is made at the end.                *)
(*                                                                         *)
(* A line is what trim() and the splits at '=' and '.' make of it; lines   *)
(* without a key are left out, and so are the options of cache and log,    *)
(* names, units and types.  A text is a number that int holds; TooWide, a  *)
(* number that only double holds, which toInt() refuses; or Junk, which    *)
(* toDouble() refuses as well.  An attribute stands for all that are       *)
(* converted in the same way.                                              *)
(***************************************************************************)
EXTENDS Integers, Sequences, Functions, FiniteSetsExt

CONSTANTS
    Ids,          \* identifiers of devices, RtuMain among them
    RtuMain,      \* the identifier of the device of a file without devices
    Addresses,    \* addresses of points
    Texts,        \* the values in the file: numbers, TooWide and Junk
    TooWide,      \* a number beyond int
    Junk,         \* a text that is no number
    DefaultHost,  \* "127.0.0.1"
    Unset,        \* an optional without a value
    Lines,        \* bound: the lines that a file may have
    MaxLines      \* bound: how many

-----------------------------------------------------------------------------
(* Lines. *)

(***************************************************************************)
(* port has 16 bits; reconnect stands for the other numbers.               *)
(***************************************************************************)
ClientAttributes == {"port", "reconnect", "host"}

DeviceAttributes == {"enabled", "commonAddress"} \cup ClientAttributes

(***************************************************************************)
(* high stands for each of the limits.                                     *)
(***************************************************************************)
PointAttributes == {"high", "normalState", "staleSeconds"}

(***************************************************************************)
(* The keys are those of ClientOptions, "device.<id>.<attribute>",         *)
(* "device.<id>.point.<ioa>.<attribute>" and "point.<ioa>.<attribute>".  A *)
(* bad line lacks a dot, an identifier, or an address other than 0.        *)
(***************************************************************************)
Line ==
    [kind : {"global"}, attribute : ClientAttributes, text : Texts] \cup
    [kind : {"device"}, id : Ids, attribute : DeviceAttributes, text : Texts] \cup
    [kind : {"devicePoint"}, id : Ids, address : Addresses, attribute : PointAttributes,
     text : Texts] \cup
    [kind : {"legacyPoint"}, address : Addresses, attribute : PointAttributes, text : Texts] \cup
    [kind : {"badDevicePoint"}, id : Ids] \cup
    [kind : {"badDevice", "badLegacyPoint"}]

Int32 == {n \in Int : -2147483647 - 1 <= n /\ n <= 2147483647}

ASSUME ConfigAssumption ==
    /\ RtuMain \in Ids
    /\ Addresses \subseteq Int \ {0}
    /\ Junk \notin Int /\ TooWide \notin Int /\ TooWide # Junk
    /\ Texts \subseteq Int32 \cup {TooWide, Junk}
    /\ Lines \subseteq Line
    /\ MaxLines \in Nat

VARIABLES
    lines,           \* the lines read so far
    client,          \* config.client
    devices,         \* devices
    devicePoints,    \* devicePoints
    legacyPoints,    \* legacyPoints
    sawLegacyPoint,  \* sawLegacyPoint
    sawDevice,       \* sawDevice
    config           \* the devices that load() returns; Unset before

vars == <<lines, client, devices, devicePoints, legacyPoints, sawLegacyPoint, sawDevice, config>>

-----------------------------------------------------------------------------
(* Values. *)

DefaultClient == [port |-> 2404, reconnect |-> 3000, host |-> DefaultHost]
DefaultPoint  == [high |-> Unset, normalState |-> Unset, staleSeconds |-> 30]

(***************************************************************************)
(* defaultPoints(): their addresses, high, normalState, staleSeconds.      *)
(***************************************************************************)
DefaultPoints ==
    [address \in {1001, 1002, 2001} |->
        CASE address = 1001 -> [high |-> 85, normalState |-> Unset, staleSeconds |-> 15]
          [] address = 1002 -> [high |-> 230, normalState |-> Unset, staleSeconds |-> 15]
          [] address = 2001 -> [high |-> Unset, normalState |-> 1, staleSeconds |-> 20]]

(***************************************************************************)
(* toInt(), toDouble(): what they make of a text, or of one they refuse.   *)
(***************************************************************************)
ToInt(text, fallback)    == IF text \in {TooWide, Junk} THEN fallback ELSE text
ToDouble(text, fallback) == IF text = Junk THEN fallback ELSE text

UInt16Of(text, old) == IF text \in {TooWide, Junk} THEN old ELSE text % 65536

(***************************************************************************)
(* A mutant: a port keeps what 16 bits cannot hold.                        *)
(***************************************************************************)
ConvertWide(attribute, text, old) ==
    CASE attribute = "host" -> text
      [] attribute = "enabled" -> IF text \in {0, 1} THEN text = 1 ELSE old
      [] attribute = "high" -> ToDouble(text, 0)
      [] attribute = "normalState" -> ToInt(text, 0)
      [] OTHER -> ToInt(text, old)

(***************************************************************************)
(* What an assignment makes of a text: one that is refused keeps the old   *)
(* value, but makes a limit or a normal state 0.                           *)
(***************************************************************************)
Convert(attribute, text, old) ==
    CASE attribute = "host" -> text
      [] attribute = "enabled" -> IF text \in {0, 1} THEN text = 1 ELSE old
      [] attribute \in {"port", "commonAddress"} -> UInt16Of(text, old)
      [] attribute = "high" -> ToDouble(text, 0)
      [] attribute = "normalState" -> ToInt(text, 0)
      [] OTHER -> ToInt(text, old)

Apply(record, line) ==
    [record EXCEPT ![line.attribute] = Convert(line.attribute, line.text, @)]

Get(map, key, default) == IF key \in DOMAIN map THEN map[key] ELSE default

Put(map, key, value) ==
    [k \in DOMAIN map \cup {key} |-> IF k = key THEN value ELSE map[k]]

(***************************************************************************)
(* A mutant: a device starts from the built-in options.                    *)
(***************************************************************************)
MakeDeviceOfDefaults(defaults) ==
    [enabled |-> TRUE, commonAddress |-> 1, port |-> DefaultClient.port,
     reconnect |-> DefaultClient.reconnect, host |-> DefaultClient.host]

(***************************************************************************)
(* The options of a device are those of its client and its own.            *)
(***************************************************************************)
MakeDevice(defaults) ==
    [enabled |-> TRUE, commonAddress |-> 1, port |-> defaults.port,
     reconnect |-> defaults.reconnect, host |-> defaults.host]

-----------------------------------------------------------------------------
(* load() *)

NoMap == << >>

Init ==
    /\ lines = << >>
    /\ client = DefaultClient
    /\ devices = NoMap
    /\ devicePoints = NoMap
    /\ legacyPoints = NoMap
    /\ sawLegacyPoint = FALSE
    /\ sawDevice = FALSE
    /\ config = Unset

Read(line) ==
    /\ config = Unset
    /\ Len(lines) < MaxLines
    /\ lines' = Append(lines, line)
    /\ UNCHANGED config

ReadGlobal(line) ==
    /\ line.kind = "global"
    /\ Read(line)
    /\ client' = Apply(client, line)
    /\ UNCHANGED <<devices, devicePoints, legacyPoints, sawLegacyPoint, sawDevice>>

(***************************************************************************)
(* applyDeviceAttribute(): the device exists from its first line on, also  *)
(* where the rest of that line is refused.                                 *)
(***************************************************************************)
ReadDevice(line) ==
    /\ line.kind \in {"device", "devicePoint", "badDevicePoint"}
    /\ Read(line)
    /\ sawDevice' = TRUE
    /\ LET device == Get(devices, line.id, MakeDevice(client))
           points == Get(devicePoints, line.id, NoMap)
       IN  /\ devices' = Put(devices, line.id,
                             IF line.kind = "device" THEN Apply(device, line) ELSE device)
           /\ devicePoints' =
                IF line.kind = "devicePoint"
                THEN Put(devicePoints, line.id,
                         Put(points, line.address,
                             Apply(Get(points, line.address, DefaultPoint), line)))
                ELSE devicePoints
    /\ UNCHANGED <<client, legacyPoints, sawLegacyPoint>>

ReadBadDevice(line) ==
    /\ line.kind = "badDevice"
    /\ Read(line)
    /\ sawDevice' = TRUE
    /\ UNCHANGED <<client, devices, devicePoints, legacyPoints, sawLegacyPoint>>

(***************************************************************************)
(* A mutant: a refused line counts for nothing.                            *)
(***************************************************************************)
ReadLegacyPointIfGood(line) ==
    /\ line.kind \in {"legacyPoint", "badLegacyPoint"}
    /\ Read(line)
    /\ sawLegacyPoint' = (sawLegacyPoint \/ line.kind = "legacyPoint")
    /\ legacyPoints' =
         IF line.kind = "legacyPoint"
         THEN Put(legacyPoints, line.address,
                  Apply(Get(legacyPoints, line.address, DefaultPoint), line))
         ELSE legacyPoints
    /\ UNCHANGED <<client, devices, devicePoints, sawDevice>>

ReadLegacyPoint(line) ==
    /\ line.kind \in {"legacyPoint", "badLegacyPoint"}
    /\ Read(line)
    /\ sawLegacyPoint' = TRUE
    /\ legacyPoints' =
         IF line.kind = "legacyPoint"
         THEN Put(legacyPoints, line.address,
                  Apply(Get(legacyPoints, line.address, DefaultPoint), line))
         ELSE legacyPoints
    /\ UNCHANGED <<client, devices, devicePoints, sawDevice>>

(***************************************************************************)
(* The end of the file, or no file at all: defaults() is what an empty one *)
(* gives.  Points outside of devices count only where no line speaks of a  *)
(* device.                                                                 *)
(***************************************************************************)
Finish ==
    /\ config = Unset
    /\ config' =
         IF sawDevice
         THEN [id \in DOMAIN devices |->
                 [device |-> devices[id], points |-> Get(devicePoints, id, NoMap)]]
         ELSE [id \in {RtuMain} |->
                 [device |-> MakeDevice(client),
                  points |-> IF sawLegacyPoint THEN legacyPoints ELSE DefaultPoints]]
    /\ UNCHANGED <<lines, client, devices, devicePoints, legacyPoints, sawLegacyPoint, sawDevice>>

Next ==
    \/ \E line \in Lines :
           ReadGlobal(line) \/ ReadDevice(line) \/ ReadBadDevice(line) \/ ReadLegacyPoint(line)
    \/ Finish

Spec == Init /\ [][Next]_vars

-----------------------------------------------------------------------------

UInt16 == {n \in Nat : n < 65536}
Optional == Int \cup {Unset}
Limit    == Optional \cup {TooWide}

ClientOptions == [port : UInt16, reconnect : Int, host : Texts \cup {DefaultHost}]
Device == [enabled : BOOLEAN, commonAddress : UInt16, port : UInt16, reconnect : Int,
           host : Texts \cup {DefaultHost}]
Point == [high : Limit, normalState : Optional, staleSeconds : Int]

IsMap(map, Key, Holds(_)) == DOMAIN map \subseteq Key /\ \A key \in DOMAIN map : Holds(map[key])

(***************************************************************************)
(* Types of the variables.                                                 *)
(***************************************************************************)
TypeOK ==
    /\ lines \in Seq(Lines) /\ Len(lines) <= MaxLines
    /\ client \in ClientOptions
    /\ IsMap(devices, Ids, LAMBDA device : device \in Device)
    /\ IsMap(devicePoints, DOMAIN devices,
             LAMBDA points : IsMap(points, Addresses, LAMBDA point : point \in Point))
    /\ IsMap(legacyPoints, Addresses, LAMBDA point : point \in Point)
    /\ sawLegacyPoint \in BOOLEAN /\ sawDevice \in BOOLEAN
    /\ config # Unset => DOMAIN config \subseteq Ids

(***************************************************************************)
(* A file as its reader understands it: which lines speak of what, and the *)
(* value of the last of them whose text is accepted.                       *)
(***************************************************************************)
Positions(file, kinds) == {k \in DOMAIN file : file[k].kind \in kinds}

OfDevice == {"device", "devicePoint", "badDevicePoint"}
OfPoint  == {"legacyPoint", "badLegacyPoint"}

LinesOf(file, kinds, id) == {k \in Positions(file, kinds) : file[k].id = id}

Accepted(attribute, text) ==
    CASE attribute \in {"host", "high", "normalState"} -> TRUE
      [] attribute = "enabled" -> text \in {0, 1}
      [] OTHER -> text \notin {TooWide, Junk}

Value(attribute, text) ==
    CASE attribute = "enabled" -> text = 1
      [] attribute \in {"port", "commonAddress"} -> text % 65536
      [] attribute = "high" /\ text = Junk -> 0
      [] attribute = "normalState" /\ text \in {TooWide, Junk} -> 0
      [] OTHER -> text

LastOf(file, positions, attribute, default) ==
    LET good == {k \in positions :
                    file[k].attribute = attribute /\ Accepted(attribute, file[k].text)}
    IN  IF good = {} THEN default ELSE Value(attribute, file[Max(good)].text)

Global(file, attribute, before) ==
    LastOf(file, {k \in Positions(file, {"global"}) : k < before}, attribute,
           DefaultClient[attribute])

(***************************************************************************)
(* What a device gets whose options are those above line first.            *)
(***************************************************************************)
DeviceAsWritten(file, id, first) ==
    [attribute \in DeviceAttributes |->
        LastOf(file, LinesOf(file, {"device"}, id), attribute,
               CASE attribute = "enabled" -> TRUE
                 [] attribute = "commonAddress" -> 1
                 [] OTHER -> Global(file, attribute, first))]

NamedDevices(file) == {id \in Ids : LinesOf(file, OfDevice, id) # {}}

NoDeviceLine(file) == Positions(file, OfDevice \cup {"badDevice"}) = {}

(***************************************************************************)
(* Every device of the file is there with the options that the file gives  *)
(* it: its own last accepted line, else the last one for all that stands   *)
(* above its first line, else the default; lines of other devices, refused *)
(* texts and the order of its own lines otherwise do not matter.  A file   *)
(* without a device line has the main RTU with the options for all; one    *)
(* with only refused device lines has no device (load(), makeDevice()).    *)
(***************************************************************************)
OptionsAsWritten ==
    config # Unset =>
        /\ DOMAIN config = IF NoDeviceLine(lines) THEN {RtuMain} ELSE NamedDevices(lines)
        /\ \A id \in DOMAIN config :
             config[id].device =
                 DeviceAsWritten(lines, id, IF NoDeviceLine(lines) THEN Len(lines) + 1
                                            ELSE Min(LinesOf(lines, OfDevice, id)))

PointsOf(file, positions) ==
    [address \in {file[k].address : k \in positions} |->
        LET own == {k \in positions : file[k].address = address}
        IN  [attribute \in PointAttributes |->
                LastOf(file, own, attribute, DefaultPoint[attribute])]]

(***************************************************************************)
(* A device has exactly the points of its own lines, each with the last    *)
(* accepted value of each attribute, also where two devices use one        *)
(* address.  Points outside of devices belong to the main RTU, and replace *)
(* the built-in ones as soon as a line speaks of one, refused or not.      *)
(***************************************************************************)
PointsAsWritten ==
    config # Unset =>
        \A id \in DOMAIN config :
            config[id].points =
                IF ~NoDeviceLine(lines) THEN PointsOf(lines, LinesOf(lines, {"devicePoint"}, id))
                ELSE IF Positions(lines, OfPoint) = {} THEN DefaultPoints
                ELSE PointsOf(lines, Positions(lines, {"legacyPoint"}))

=============================================================================
