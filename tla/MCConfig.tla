------------------------------ MODULE MCConfig ------------------------------
(***************************************************************************)
(* Config as the model checker runs it.  A number is 0, too wide for 16    *)
(* bits or for 32, or negative.                                            *)
(***************************************************************************)
EXTENDS Config

SomeTexts == {0, 65537, -1, TooWide, Junk}

(***************************************************************************)
(* Each kind of line and each attribute.  Lines for all, for the main and  *)
(* for the other device compete for the port, points of two devices have   *)
(* one address.                                                            *)
(***************************************************************************)
SomeLines ==
    [kind : {"global"}, attribute : {"port"}, text : {-1, Junk}] \cup
    [kind : {"global"}, attribute : {"reconnect", "host"}, text : {0}] \cup
    [kind : {"device"}, id : Ids, attribute : {"port"}, text : {65537, Junk}] \cup
    [kind : {"device"}, id : {RtuMain}, attribute : {"enabled"}, text : {0, Junk}] \cup
    [kind : {"device"}, id : {RtuMain}, attribute : {"commonAddress", "reconnect"},
     text : {65537}] \cup
    [kind : {"devicePoint"}, id : Ids, address : {1}, attribute : {"staleSeconds"},
     text : {-1, Junk}] \cup
    [kind : {"device"}, id : {RtuMain}, attribute : {"reconnect"}, text : {TooWide}] \cup
    [kind : {"devicePoint"}, id : {RtuMain}, address : {2}, attribute : {"normalState"},
     text : {TooWide}] \cup
    [kind : {"legacyPoint"}, address : Addresses, attribute : {"high"}, text : {0, TooWide}] \cup
    [kind : {"badDevicePoint"}, id : {RtuMain}] \cup
    [kind : {"badDevice", "badLegacyPoint"}]
=============================================================================
