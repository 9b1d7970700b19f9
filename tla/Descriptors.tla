---------------------------- MODULE Descriptors ----------------------------
(***************************************************************************)
(* Reading and parsing a configuration (libusb/descriptor.c).              *)
(*                                                                         *)
(* A configuration is a sequence of descriptors behind its own; one step   *)
(* takes one descriptor, allocates one block or leaves one loop.  Sizes    *)
(* are in bytes, positions in descriptors.                                 *)
(***************************************************************************)
EXTENDS Integers, Sequences, FiniteSets, SequencesExt, FiniteSetsExt, Functions, TLC

CONSTANTS
  Configurations,  \* what devices answer, see ConfigurationsAssumption
  MaxInterfaces,   \* USB_MAXINTERFACES
  MaxEndpoints,    \* USB_MAXENDPOINTS
  DescFaults       \* see below

(* "no_memory": malloc() fails; "io": the backend does.                    *)
AllDescFaults == {"no_memory", "io"}

Kinds == {"interface", "endpoint", "class", "config"}

(* interfaces: bNumInterfaces; list: the descriptors behind the first; cut:*)
(* bytes by which wTotalLength is too small.  endpoints is bNumEndpoints.  *)
ASSUME ConfigurationsAssumption ==
  /\ DescFaults \subseteq AllDescFaults /\ MaxInterfaces \in Nat /\ MaxEndpoints \in Nat
  /\ \A c \in Configurations :
       /\ c.interfaces \in Nat /\ c.cut \in Nat
       /\ c.list \in Seq([kind : Kinds, length : Nat, alternate : Nat, endpoints : Nat])

ConfigLength    == 9
InterfaceLength == 9
HeaderLength    == 2

VARIABLES
  given,     \* what the device answers
  parsing,   \* where the parser is
  level,     \* whose class-specific descriptors it skips
  left,      \* size
  position,  \* buffer, as index into given.list
  begin,     \* where the skipped descriptors begin
  spot,     \* interface, alternate setting and endpoint it is at, from 1
  counts,    \* bNumEndpoints of every interface and setting so far
  placed,    \* the spot each descriptor was taken at
  blocks,    \* what is allocated
  ended      \* how the call returned

parseVars == <<given, parsing, level, left, position, begin, spot, counts, placed>>
descVars  == <<parseVars, blocks, ended>>

(* The bytes of the last n descriptors.                                    *)
BytesOfLast(c) ==
  LET bytes[n \in 0..Len(c.list)] ==
        IF n = 0 THEN 0 ELSE bytes[n - 1] + c.list[Len(c.list) - n + 1].length
  IN  bytes

TotalLength(c) == ConfigLength + BytesOfLast(c)[Len(c.list)] - c.cut

DescTypeOK ==
  /\ given \in Configurations /\ left \in Int
  /\ parsing \in {"get", "length", "read", "configuration", "next", "skip", "interface", "endpoints",
                  "endpoint", "alternate", "done"}
  /\ level \in {"config", "interface", "endpoint"}
  /\ position \in 1..(Len(given.list) + 1) /\ begin \in 1..position /\ spot \in [1..3 -> Nat]
  /\ Len(placed) = position - 1
  /\ ended \in {"none", "ok", "error", "no_memory", "failed", "freed"}

DescInit ==
  /\ given \in Configurations /\ parsing = "get" /\ level = "config"
  /\ left = 0 /\ position = 1 /\ begin = 1 /\ spot = <<0, 0, 0>> /\ counts = <<>>
  /\ placed = <<>> /\ blocks = {} /\ ended = "none"

(* What lies behind the buffer may look like a descriptor that fits or not.*)
Behind(length) == [kind |-> "class", length |-> length, alternate |-> 0, endpoints |-> 0]
Readable == IF position <= Len(given.list) THEN {given.list[position]} ELSE {Behind(0), Behind(9)}
Here     == CHOOSE d \in Readable : TRUE

Proper(d) == d.kind # "class"
Alts(i)   == {s \in DOMAIN counts : s[1] = i}

-----------------------------------------------------------------------------
(* clear_interface(), with clear_endpoint() of each of its endpoints, and  *)
(* clear_configuration(): the blocks they find and free.                   *)
ClearSettings(i) ==
  IF <<"settings", i>> \notin blocks THEN {}
  ELSE {<<"settings", i>>} \union {<<"extra", s[1], s[2], 0>> : s \in Alts(i)}

ClearInterface(i) ==
  IF <<"settings", i>> \notin blocks THEN {}
  ELSE ClearSettings(i)
       \union UNION {{<<"endpoints", s[1], s[2]>>}
                     \union {<<"extra", s[1], s[2], e>> : e \in 1..counts[s]} :
                     s \in {u \in Alts(i) : <<"endpoints", u[1], u[2]>> \in blocks}}

ClearConfiguration ==
  {<<"extra", 0, 0, 0>>}
  \union (IF <<"interfaces">> \in blocks
          THEN {<<"interfaces">>} \union UNION {ClearInterface(i) : i \in 1..given.interfaces}
          ELSE {})

Frees(set, how) ==
  /\ blocks' = blocks \ set /\ ended' = how /\ parsing' = "done"
  /\ UNCHANGED <<given, level, left, position, begin, spot, counts, placed>>

(* The error paths end in those of libusb_get_config_descriptor().         *)
Fails(how) == Frees(ClearConfiguration \union {<<"config">>, <<"buffer">>}, how)

(* malloc(): the block is there, or the call fails.                        *)
Allocates(block, parser) ==
  \/ blocks' = blocks \union {block} /\ parser /\ UNCHANGED ended
  \/ "no_memory" \in DescFaults /\ Fails("no_memory")

Goes(where) ==
  parsing' = where
  /\ UNCHANGED <<given, level, left, position, begin, spot, counts, placed>>

(* buffer += bLength, size -= bLength.                                     *)
Takes(by) ==
  /\ position' = position + 1 /\ left' = left - Here.length /\ placed' = Append(placed, by)

-----------------------------------------------------------------------------
(* libusb_get_config_descriptor(), libusb_get_active_config_descriptor():  *)
(* the length first, then as much.                                         *)
BackendAnswers(after) == after \/ ("io" \in DescFaults /\ Fails("failed"))

GetConfigDescriptor == parsing = "get" /\ Allocates(<<"config">>, Goes("length"))

ReadLength == parsing = "length" /\ BackendAnswers(Allocates(<<"buffer">>, Goes("read")))

ReadDescriptors ==
  /\ parsing = "read"
  /\ BackendAnswers(
       /\ left' = TotalLength(given) - ConfigLength /\ parsing' = "configuration"
       /\ UNCHANGED <<given, level, position, begin, spot, counts, placed, blocks, ended>>)

(* parse_configuration()                                                   *)
ParseConfiguration ==
  /\ parsing = "configuration"
  /\ IF given.interfaces > MaxInterfaces THEN Fails("error")
     ELSE Allocates(<<"interfaces">>, Goes("next"))

(* parse_configuration() returns when it has all interfaces; otherwise it  *)
(* skips what is before the next.                                          *)
NextInterface ==
  /\ parsing = "next"
  /\ IF spot[1] = given.interfaces
     THEN Frees({<<"buffer">>}, "ok")
     ELSE /\ parsing' = "skip" /\ level' = "config" /\ begin' = position
          /\ UNCHANGED <<given, left, position, spot, counts, placed, blocks, ended>>

(* The loops that skip class and vendor specific descriptors.  Only that   *)
(* of parse_configuration() looks whether they fit.                        *)
BadLength == Here.length < 2 \/ (level = "config" /\ Here.length > left)

SkipDescriptor ==
  /\ parsing = "skip" /\ left >= HeaderLength
  /\ IF BadLength THEN Fails("error")
     ELSE /\ ~Proper(Here) /\ Takes(IF level = "config" THEN <<0, 0, 0>> ELSE spot)
          /\ UNCHANGED <<given, parsing, level, begin, spot, counts, blocks, ended>>

AfterSkip ==
  CASE level = "config"    -> "interface"
    [] level = "interface" -> "endpoints"
    [] level = "endpoint"  -> IF spot[3] < counts[<<spot[1], spot[2]>>] THEN "endpoint"
                              ELSE "alternate"

(* ... and copy them.  Of those before interfaces only the first are kept. *)
StoreExtra ==
  LET p     == IF level = "config" THEN <<0, 0, 0>> ELSE spot
      block == <<"extra", p[1], p[2], p[3]>>
      then  == /\ parsing' = AfterSkip
               /\ spot' = CASE level = "config" -> <<spot[1] + 1, 0, 0>>
                             [] AfterSkip = "endpoint" -> [spot EXCEPT ![3] = @ + 1]
                             [] OTHER -> spot
               /\ UNCHANGED <<given, level, left, position, begin, counts, placed>>
  IN  /\ parsing = "skip" /\ (left < HeaderLength \/ (Proper(Here) /\ ~BadLength))
      /\ IF begin = position \/ block \in blocks THEN then /\ UNCHANGED <<blocks, ended>>
         ELSE Allocates(block, then)

(* "return parsed" of parse_interface().                                   *)
ReturnsParsed == Goes("next") /\ UNCHANGED <<blocks, ended>>

(* parse_interface(): whatever comes is taken for a setting of it.         *)
ParseInterface ==
  /\ parsing = "interface"
  /\ IF left < InterfaceLength THEN ReturnsParsed
     ELSE Allocates(<<"settings", spot[1]>>,
            /\ Takes(<<spot[1], spot[2] + 1, 0>>) /\ spot' = <<spot[1], spot[2] + 1, 0>>
            /\ counts' = [s \in DOMAIN counts \union {<<spot[1], spot[2] + 1>>} |->
                            IF s \in DOMAIN counts THEN counts[s] ELSE Here.endpoints]
            /\ parsing' = "skip" /\ level' = "interface" /\ begin' = position'
            /\ UNCHANGED given)

ParseEndpoints ==
  /\ parsing = "endpoints"
  /\ LET n == counts[<<spot[1], spot[2]>>] IN
     IF left >= HeaderLength /\ Here.kind = "config" THEN ReturnsParsed ELSE
     CASE n > MaxEndpoints -> Fails("error")
       [] n = 0            -> Goes("alternate") /\ UNCHANGED <<blocks, ended>>
       [] OTHER -> Allocates(<<"endpoints", spot[1], spot[2]>>,
                     /\ parsing' = "endpoint" /\ spot' = [spot EXCEPT ![3] = 1]
                     /\ UNCHANGED <<given, level, left, position, begin, counts, placed>>)

(* parse_endpoint(): what is no endpoint is left where it is.  The buffer  *)
(* is read without regard for what is left of it.                          *)
ParseEndpoint ==
  /\ parsing = "endpoint"
  /\ \E d \in Readable :
       IF d.length > left THEN Fails("error")
       ELSE IF d.kind # "endpoint"
       THEN /\ IF spot[3] < counts[<<spot[1], spot[2]>>]
               THEN spot' = [spot EXCEPT ![3] = @ + 1] /\ UNCHANGED parsing
               ELSE parsing' = "alternate" /\ UNCHANGED spot
            /\ UNCHANGED <<given, level, left, position, begin, counts, placed, blocks, ended>>
       ELSE /\ Takes(spot) /\ parsing' = "skip" /\ level' = "endpoint" /\ begin' = position'
            /\ UNCHANGED <<given, spot, counts, blocks, ended>>

AnotherInterface(d) == d.kind = "interface"
AnotherSetting(d) == d.kind = "interface" /\ d.alternate # 0

ParseAlternate ==
  /\ parsing = "alternate"
  /\ IF left >= InterfaceLength /\ AnotherSetting(Here)
     THEN Goes("interface") /\ UNCHANGED <<blocks, ended>>
     ELSE ReturnsParsed

FreeConfigDescriptor ==
  /\ ended = "ok" /\ Frees(ClearConfiguration \union {<<"config">>}, "freed")

DescNext ==
  \/ GetConfigDescriptor \/ ReadLength \/ ReadDescriptors \/ ParseConfiguration
  \/ SkipDescriptor \/ StoreExtra \/ NextInterface \/ ParseInterface \/ ParseEndpoints
  \/ ParseEndpoint \/ ParseAlternate \/ FreeConfigDescriptor

DescSpec == DescInit /\ [][DescNext]_descVars

-----------------------------------------------------------------------------
InterfacesOf(c) == {k \in DOMAIN c.list : c.list[k].kind = "interface"}
FirstsOf(c)     == {k \in InterfacesOf(c) : c.list[k].alternate = 0}
EndpointsOf(c)  == {k \in DOMAIN c.list : c.list[k].kind = "endpoint"}

(* Those of a set among the first n descriptors, and the last of them.     *)
UpTo(set, n)     == {j \in set : j <= n}
LastUpTo(set, n) == Max({0} \union UpTo(set, n))

(* The interface and the setting a descriptor follows, as positions, and   *)
(* the endpoints of a setting.                                             *)
FirstAt(c, k)     == LastUpTo(FirstsOf(c), k)
SettingAt(c, k)   == LastUpTo(InterfacesOf(c), k)
EndpointsIn(c, k) == {j \in EndpointsOf(c) : SettingAt(c, j) = k}

(* A configuration as the USB specification wants it, within the limits of *)
(* the library: as many interfaces as announced, one at least, each with   *)
(* its settings from 0 on, each setting with as many endpoints as it       *)
(* announces, and every descriptor with the length of its kind.            *)
WellFormed(c) ==
  /\ c.cut = 0 /\ c.interfaces \in 1..MaxInterfaces
  /\ c.interfaces = Cardinality(FirstsOf(c))
  /\ \A k \in DOMAIN c.list : c.list[k].kind # "config" /\ c.list[k].length >= HeaderLength
  /\ \A k \in InterfacesOf(c) :
       /\ FirstAt(c, k) > 0 /\ c.list[k].length >= InterfaceLength
       /\ Cardinality(EndpointsIn(c, k)) = c.list[k].endpoints
       /\ c.list[k].endpoints <= MaxEndpoints
  /\ \A k \in EndpointsOf(c) : SettingAt(c, k) > 0

(* Where the k-th descriptor of a well-formed configuration belongs.       *)
InterfaceAt(c, k) == Cardinality(UpTo(FirstsOf(c), k))
AlternateAt(c, k) == Cardinality({j \in UpTo(InterfacesOf(c), k) : j >= FirstAt(c, k)})
EndpointAt(c, k)  == Cardinality({j \in UpTo(EndpointsOf(c), k) : j >= SettingAt(c, k)})
Belongs(c, k)     == <<InterfaceAt(c, k), AlternateAt(c, k), EndpointAt(c, k)>>

(* A call that fails, wherever in the configuration, keeps nothing         *)
(* allocated, and one that succeeds only what                              *)
(* libusb_free_config_descriptor() finds and frees, however the counts     *)
(* announced and the descriptors that follow disagree.                     *)
NothingLeaks ==
  /\ ended \in {"error", "no_memory", "failed", "freed"} => blocks = {}
  /\ ended = "ok" => blocks \subseteq ClearConfiguration \union {<<"config">>}

(* Nothing leaks, and a well-formed configuration is never refused, and    *)
(* each of its descriptors is found with the interface, setting and        *)
(* endpoint it belongs to.                                                 *)
ConfigurationParsed ==
  /\ NothingLeaks
  /\ WellFormed(given) =>
       /\ ended # "error"
       /\ ended = "ok" => placed = [k \in DOMAIN given.list |-> Belongs(given, k)]
=============================================================================
