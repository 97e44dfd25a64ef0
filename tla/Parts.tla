-------------------------------- MODULE Parts --------------------------------
(***************************************************************************)
(* The parts of the program that work on data of their own, one behaviour  *)
(* each: whatever part an initial state is about, the variables of the     *)
(* others are `unused`.                                                    *)
(***************************************************************************)
EXTENDS Integers

CONSTANTS
  Sizes, Names, ISO_CHUNK, ISO_SCAN, CARRY,                  \* of IsoKind
  CoreLengths, SECTOR, Slots, MAX_CORE_SECTORS, CORE_SEGMENT,  \* of BiosBoot
  HBIN_HEADER_SIZE, PAGE, KeyNames, NameLen(_), DataSizes,
  MaxKeys, MaxValues, Nowhere,                               \* of HiveStore
  Distros,                                                   \* of Dependencies
  Ids, Strings, MaxEntries,                                  \* of PoCatalogue
  Themes, Langs, Bad                                         \* of Settings

ASSUME PartsAssumption ==
  /\ {SECTOR, CORE_SEGMENT, MaxKeys, MaxValues, MaxEntries} \subseteq Nat \ {0}
  /\ CoreLengths \subseteq Nat \ {0} /\ DataSizes \subseteq Nat
  /\ MAX_CORE_SECTORS \in Nat /\ Slots \in Nat /\ Slots > 2
  \* cells stay aligned, and so does the end of the hive
  /\ HBIN_HEADER_SIZE \in Nat /\ HBIN_HEADER_SIZE % 8 = 0 /\ PAGE \in Nat \ {0} /\ PAGE % 8 = 0
  /\ KeyNames \subseteq Nat /\ \A n \in KeyNames : NameLen(n) \in Nat
  /\ Nowhere \notin Nat  \* no cell has it for an offset
  /\ Distros \subseteq {"arch", "debian", "fedora", "unknown"}
  /\ Themes \subseteq 0 .. 2 /\ 0 \in Themes /\ "" \in Langs
  /\ Bad \notin Themes /\ Bad \notin Langs /\ Bad \notin BOOLEAN

VARIABLES
  part,   \* which of them
  phase,  \* of all six
  size, names, read, carry, linux, kind, failed,               \* of IsoKind
  core_len, version, core, slot, mbr, code,                    \* of BiosBoot
  buf, top, orphans, unused_values, root,                      \* of HiveStore
  distro, mode, tools, aside, install_cmd, changed,            \* of Dependencies
  po, nth, place, rest, catalog, entry, field, fuzzy,          \* of PoCatalogue
  APP_CONFIG, config_file, kept, cut                           \* of Settings

isoVars == <<size, names, read, carry, linux, kind, failed>>
bootVars == <<core_len, version, core, slot, mbr, code>>
hiveVars == <<buf, top, orphans, unused_values, root>>
depsVars == <<distro, mode, tools, aside, install_cmd, changed>>
poVars == <<po, nth, place, rest, catalog, entry, field, fuzzy>>
configVars == <<APP_CONFIG, config_file, kept, cut>>
vars == <<part, phase, isoVars, bootVars, hiveVars, depsVars, poVars, configVars>>

Iso == INSTANCE IsoKind
Boot == INSTANCE BiosBoot
Hive == INSTANCE HiveStore
Deps == INSTANCE Dependencies
Po == INSTANCE PoCatalogue WITH part <- place
Config == INSTANCE Settings

ASSUME IsoAssumption == Iso!Limits
ASSUME PoAssumption == Po!Texts

unused == "unused"
NoIso ==
  /\ size = unused /\ names = unused /\ read = unused /\ carry = unused
  /\ linux = unused /\ kind = unused /\ failed = unused
NoBoot ==
  /\ core_len = unused /\ version = unused /\ core = unused
  /\ slot = unused /\ mbr = unused /\ code = unused
NoHive ==
  /\ buf = unused /\ top = unused /\ orphans = unused
  /\ unused_values = unused /\ root = unused
NoDeps ==
  /\ distro = unused /\ mode = unused /\ tools = unused /\ aside = unused
  /\ install_cmd = unused /\ changed = unused
NoPo ==
  /\ po = unused /\ nth = unused /\ place = unused /\ rest = unused
  /\ catalog = unused /\ entry = unused /\ field = unused /\ fuzzy = unused
NoConfig == APP_CONFIG = unused /\ config_file = unused /\ kept = unused /\ cut = unused

Init ==
  \/ part = "iso" /\ Iso!Init /\ NoBoot /\ NoHive /\ NoDeps /\ NoPo /\ NoConfig
  \/ part = "boot" /\ Boot!Init /\ NoIso /\ NoHive /\ NoDeps /\ NoPo /\ NoConfig
  \/ part = "hive" /\ Hive!Init /\ NoIso /\ NoBoot /\ NoDeps /\ NoPo /\ NoConfig
  \/ part = "deps" /\ Deps!Init /\ NoIso /\ NoBoot /\ NoHive /\ NoPo /\ NoConfig
  \/ part = "po" /\ Po!Init /\ NoIso /\ NoBoot /\ NoHive /\ NoDeps /\ NoConfig
  \/ part = "config" /\ Config!Init /\ NoIso /\ NoBoot /\ NoHive /\ NoDeps /\ NoPo

Step ==
  \/ /\ part = "iso" /\ Iso!Next
     /\ UNCHANGED <<bootVars, hiveVars, depsVars, poVars, configVars>>
  \/ /\ part = "boot" /\ Boot!Next
     /\ UNCHANGED <<isoVars, hiveVars, depsVars, poVars, configVars>>
  \/ /\ part = "hive" /\ Hive!Next
     /\ UNCHANGED <<isoVars, bootVars, depsVars, poVars, configVars>>
  \/ /\ part = "deps" /\ Deps!Next
     /\ UNCHANGED <<isoVars, bootVars, hiveVars, poVars, configVars>>
  \/ /\ part = "po" /\ Po!Next
     /\ UNCHANGED <<isoVars, bootVars, hiveVars, depsVars, configVars>>
  \/ /\ part = "config" /\ Config!Next
     /\ UNCHANGED <<isoVars, bootVars, hiveVars, depsVars, poVars>>

Next == Step /\ UNCHANGED part

Spec == Init /\ [][Next]_vars

-----------------------------------------------------------------------------
(* Properties, each told in the module of its part                         *)

\* iso_kind: a name counts whatever chunk it begins or ends in.
KindIsRight == part = "iso" => Iso!KindIsRight

\* bios_boot_code: the BIOS gets the whole core, once, and nothing else.
CoreLoadsWhole == part = "boot" => Boot!CoreLoadsWhole

\* HiveWriter: the hive is one that a registry parser reads back.
HiveIsSound == part = "hive" => Hive!HiveIsSound

\* proceed_to_warnings: a tool that is nowhere to be found shows before the wipe.
ToolsBeforeWipe == part = "deps" => Deps!ToolsBeforeWipe

\* read_po: the catalogue is what the file says, in any layout.
CatalogueIsRight == part = "po" => Po!CatalogueIsRight

\* load_config: the settings survive a save that was cut, and any file.
SettingsSurvive == [][part = "config" => Config!Survives]_vars
=============================================================================
