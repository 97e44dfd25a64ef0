---------------------------- MODULE PartsProofs ----------------------------
(***************************************************************************)
(* What holds of the parts for every value of their constants: the scan of *)
(* an image, the block list of a GRUB core, the tools of a mode, the .po   *)
(* file of a language, the cells of a hive and the settings file.          *)
(***************************************************************************)
EXTENDS Parts, SequenceTheorems, FiniteSetTheorems, TLAPS

-----------------------------------------------------------------------------
(* iso_kind finds every marker in what it reads, for every size of image,  *)
(* chunk and overlap, as long as no marker is longer than what is carried  *)
(* on by more than the one byte that ends it in the next chunk.            *)

\* The types, the loop's invariant and what is claimed of the result.
IsoInv ==
  /\ phase \in {"scan", "done"} /\ size \in Nat /\ names \subseteq Names
  /\ read \in 0 .. size /\ carry \in Nat /\ linux \in BOOLEAN
  /\ Iso!ScanInv /\ Iso!KindIsRight

\* _views: a window shows every name that lies in it.
LEMMA WholeNamesSeen ==
  ASSUME Iso!Limits, NEW n \in Names, NEW from \in Nat, NEW to \in Nat,
         from <= n.at, n.at + n.len <= to
  PROVE  Iso!Seen(n, from, to)
<1> n.at \in Nat /\ n.len \in Nat /\ n.utf16 \in BOOLEAN
  BY DEF Iso!Limits
<1>1. CASE ~n.utf16
  BY <1>1 DEF Iso!Seen
<1>2. CASE n.utf16
  <2>1. n.len % 2 = 0
    BY <1>2 DEF Iso!Limits
  <2>2. PICK start \in 0 .. 1 : from + start <= n.at /\ (n.at - from - start) % 2 = 0
    <3>1. CASE (n.at - from) % 2 = 0
      <4>1. from + 0 <= n.at /\ (n.at - from - 0) % 2 = 0
        BY <3>1
      <4> QED  BY <4>1
    <3>2. CASE (n.at - from) % 2 # 0
      <4>1. from + 1 <= n.at /\ (n.at - from - 1) % 2 = 0
        BY <3>2
      <4> QED  BY <4>1
    <3> QED  BY <3>1, <3>2
  <2>3. n.at + n.len <= from + start + 2 * ((to - from - start) \div 2)
    BY <2>1, <2>2
  <2> QED  BY <1>2, <2>2, <2>3 DEF Iso!Seen
<1> QED  BY <1>1, <1>2

\* And none that ends behind it.
LEMMA SeenNamesEnd ==
  ASSUME Iso!Limits, NEW n \in Names, NEW from \in Nat, NEW to \in Nat, from <= to, Iso!Seen(n, from, to)
  PROVE  n.at + n.len <= to
<1> n.at \in Nat /\ n.len \in Nat /\ n.utf16 \in BOOLEAN
  BY DEF Iso!Limits
<1> QED  BY DEF Iso!Seen

\* One turn of the loop: what lies in the bytes read so far is what lay in the
\* bytes read before, or shows in the window.
LEMMA WindowIsEnough ==
  ASSUME Iso!Limits, IsoInv, phase = "scan", NEW what,
         NEW to \in Nat, read <= to
  PROVE  Iso!Within(to, what) <=> Iso!Within(read, what) \/ Iso!Finds(read - carry, to, what)
<1> DEFINE from == read - carry
<1>1. from \in Nat /\ from <= read /\ \A n \in names : n.at + n.len > read => from <= n.at
  BY DEF IsoInv, Iso!ScanInv, Iso!Min2, Iso!Limits
<1>2. ASSUME NEW n \in names, n.tells = what, n.at + n.len <= to, ~(n.at + n.len <= read)
      PROVE  Iso!Seen(n, from, to)
  <2>1. n \in Names /\ n.at \in Nat /\ n.len \in Nat
    BY DEF IsoInv, Iso!Limits
  <2>2. from <= n.at
    BY <1>1, <1>2, <2>1 DEF IsoInv
  <2> QED  BY <1>1, <1>2, <2>1, <2>2, WholeNamesSeen
<1>3. ASSUME NEW n \in names, Iso!Seen(n, from, to)
      PROVE  n.at + n.len <= to
  BY <1>1, <1>3, SeenNamesEnd DEF IsoInv
<1>4. ASSUME NEW n \in names, n.at + n.len <= read
      PROVE  n.at + n.len <= to
  BY <1>4 DEF IsoInv, Iso!Limits
<1> QED  BY <1>2, <1>3, <1>4 DEF Iso!Within, Iso!Finds

LEMMA IsoStarts == Iso!Limits /\ Iso!Init => IsoInv
<1> SUFFICES ASSUME Iso!Limits, Iso!Init PROVE IsoInv
  OBVIOUS
<1>1. size \in Nat /\ names \subseteq Names /\ read = 0 /\ carry = 0
  BY DEF Iso!Init, Iso!Limits
<1>2. \A n \in names : ~(n.at + n.len <= read)
  BY <1>1 DEF Iso!Limits
<1>3. \A what : ~Iso!Within(read, what)
  BY <1>2 DEF Iso!Within
<1>4. phase = "scan" /\ linux = FALSE /\ carry = Iso!Min2(CARRY, read)
  BY <1>1 DEF Iso!Init, Iso!Min2, Iso!Limits
<1>5. Iso!ScanInv
  BY <1>3, <1>4 DEF Iso!ScanInv
<1>6. Iso!KindIsRight
  BY <1>4 DEF Iso!KindIsRight
<1>7. linux \in BOOLEAN
  BY <1>4, Zenon
<1>8. read \in 0 .. size /\ carry \in Nat
  BY <1>1
<1> QED  BY <1>1, <1>4, <1>5, <1>6, <1>7, <1>8 DEF IsoInv

LEMMA IsoSteps == Iso!Limits /\ IsoInv /\ [Iso!Next]_<<phase, isoVars>> => IsoInv'
<1> SUFFICES ASSUME Iso!Limits, IsoInv, [Iso!Next]_<<phase, isoVars>> PROVE IsoInv'
  OBVIOUS
<1>1. CASE Iso!ReadChunk
  <2> DEFINE from == read - carry
             to == Iso!Min2(read + ISO_CHUNK, size)
  <2>1. to \in Nat /\ read <= to /\ to <= size /\ read' = to
    BY <1>1 DEF Iso!ReadChunk, IsoInv, Iso!Limits, Iso!Min2
  <2>2. phase = "scan" /\ size' = size /\ names' = names
    BY <1>1 DEF Iso!ReadChunk
  <2>3. \A what : Iso!Within(to, what) <=> Iso!Within(read, what) \/ Iso!Finds(from, to, what)
    BY <2>1, <2>2, WindowIsEnough
  <2>4. \A what : Iso!Within(read, what)' <=> Iso!Within(to, what)
    BY <2>1, <2>2 DEF Iso!Within
  <2>5. ~Iso!Within(read, "windows") /\ (linux <=> Iso!Within(read, "linux")) /\ carry = Iso!Min2(CARRY, read)
    BY <2>2 DEF IsoInv, Iso!ScanInv
  <2>6. CASE Iso!Finds(from, to, "windows")
    <3>1. phase' = "done" /\ kind' = 0 /\ linux' = linux /\ carry' = carry
      BY <1>1, <2>6 DEF Iso!ReadChunk
    <3>2. Iso!Within(read, "windows")'
      BY <2>3, <2>4, <2>6
    <3>3. Iso!KindIsRight'
      BY <3>1, <3>2 DEF Iso!KindIsRight
    <3> QED  BY <2>1, <2>2, <3>1, <3>3 DEF IsoInv, Iso!ScanInv
  <2>7. CASE ~Iso!Finds(from, to, "windows")
    <3>1. /\ phase' = "scan" /\ linux' = (linux \/ Iso!Finds(from, to, "linux"))
          /\ carry' = Iso!Min2(CARRY, to - from)
      BY <1>1, <2>2, <2>7 DEF Iso!ReadChunk
    <3>2. carry' = Iso!Min2(CARRY, read)' /\ carry' \in Nat
      BY <2>1, <2>5, <3>1 DEF Iso!Min2, Iso!Limits, IsoInv
    <3>3. ~Iso!Within(read, "windows")' /\ (linux' <=> Iso!Within(read, "linux")')
      BY <2>3, <2>4, <2>5, <2>7, <3>1
    <3>4. Iso!ScanInv' /\ Iso!KindIsRight'
      BY <3>1, <3>2, <3>3 DEF Iso!ScanInv, Iso!KindIsRight
    <3>5. size' \in Nat /\ names' \subseteq Names /\ read' \in 0 .. size'
      BY <2>1, <2>2 DEF IsoInv
    <3>6. linux' \in BOOLEAN
      <4>1. (linux \/ Iso!Finds(from, to, "linux")) \in BOOLEAN
        OBVIOUS
      <4> QED  BY <3>1, <4>1, Zenon
    <3> QED  BY <3>1, <3>2, <3>4, <3>5, <3>6 DEF IsoInv
  <2> QED  BY <2>6, <2>7
<1>2. CASE Iso!Finish
  <2>1. UNCHANGED <<size, names, read, carry, linux>> /\ phase = "scan" /\ phase' = "done"
    BY <1>2 DEF Iso!Finish
  <2>2. \A what : Iso!Within(read, what)' <=> Iso!Within(read, what)
    BY <2>1 DEF Iso!Within
  <2>3. kind' = (IF linux THEN 1 ELSE 2) /\ failed' = (read < ISO_SCAN /\ read < size)
    BY <1>2 DEF Iso!Finish
  <2>4. failed' \/ read >= Iso!Min2(size, ISO_SCAN)
    <3>1. CASE read < ISO_SCAN /\ read < size
      BY <2>3, <3>1
    <3>2. CASE ~(read < ISO_SCAN /\ read < size)
      BY <3>2 DEF IsoInv, Iso!Limits, Iso!Min2
    <3> QED  BY <3>1, <3>2
  <2> QED  BY <2>1, <2>2, <2>3, <2>4 DEF IsoInv, Iso!ScanInv, Iso!KindIsRight, Iso!Min2
<1>3. CASE UNCHANGED <<phase, isoVars>>
  <2>1. UNCHANGED <<size, names, read, carry, linux, kind, failed>>
    BY <1>3 DEF isoVars
  <2>2. phase' = phase
    BY <1>3
  <2>3. \A what : Iso!Within(read, what)' <=> Iso!Within(read, what)
    BY <2>1 DEF Iso!Within
  <2>4. Iso!ScanInv' /\ Iso!KindIsRight'
    BY <2>1, <2>2, <2>3 DEF IsoInv, Iso!ScanInv, Iso!KindIsRight
  <2> QED  BY <2>1, <2>2, <2>4 DEF IsoInv
<1> QED  BY <1>1, <1>2, <1>3 DEF Iso!Next

\* iso_kind: "A Windows marker anywhere wins over a Linux one", whatever chunk
\* of however large an image it begins or ends in, and in either encoding.
THEOREM KindCorrect == Spec => []KindIsRight
<1> DEFINE Inv == part = "iso" => IsoInv
<1>1. Init => Inv
  BY IsoAssumption, IsoStarts DEF Init
<1>2. Inv /\ [Next]_vars => Inv'
  <2> SUFFICES ASSUME IsoInv, part = "iso", part' = "iso", [Next]_vars PROVE IsoInv'
    BY DEF Next, vars
  <2>1. CASE Next
    BY <2>1, IsoAssumption, IsoSteps DEF Next, Step
  <2>2. CASE UNCHANGED vars
    BY <2>2, IsoAssumption, IsoSteps DEF vars
  <2> QED  BY <2>1, <2>2
<1>3. Inv => KindIsRight
  BY DEF IsoInv, KindIsRight
<1> QED  BY <1>1, <1>2, <1>3, PTL DEF Spec

-----------------------------------------------------------------------------
(* The settings file, whatever stands in it and wherever a save is cut.    *)

\* What the file may hold of an object: any value, or a bad one.
Found ==
  [theme : Themes \cup {Bad}, lang : Langs \cup {Bad}, verify : {TRUE, FALSE, Bad}]

\* What ties the file to the history: a save that was cut shows in it, and
\* otherwise it says what was kept.
ConfigInv ==
  /\ phase \in {"off", "loaded", "saving"} /\ cut \in BOOLEAN
  /\ APP_CONFIG \in Config!Configs
  /\ cut => config_file = [form |-> "cut"]
  /\ phase = "saving" => cut
  /\ \/ config_file \in Config!Broken
     \/ \E data \in Found : config_file = Config!Object(data)
  /\ ~cut => kept = IF config_file \in Config!Broken THEN Config!DEFAULT_CONFIG
                    ELSE Config!Sanitised(config_file.data)

\* load_config: each value by itself, so the result is always usable.
LEMMA SanitisedIsConfig ==
  ASSUME NEW data \in Found
  PROVE  Config!Sanitised(data) \in Config!Configs
<1>1. /\ data.theme = Bad \/ data.theme \in Themes
      /\ data.lang = Bad \/ data.lang \in Langs
  BY DEF Found
<1>2. data.verify = Bad \/ data.verify \in BOOLEAN
  BY DEF Found
<1>3. 0 \in Themes /\ "" \in Langs
  BY PartsAssumption DEF PartsAssumption
<1> QED  BY <1>1, <1>2, <1>3 DEF Config!Sanitised, Config!Configs, Config!DEFAULT_CONFIG

\* What the program writes it reads back unchanged.
LEMMA WrittenReadsBack ==
  ASSUME NEW config \in Config!Configs
  PROVE  config \in Found /\ Config!Sanitised(config) = config
<1>1. Bad \notin Themes /\ Bad \notin Langs /\ Bad \notin BOOLEAN
  BY PartsAssumption DEF PartsAssumption
<1> QED  BY <1>1 DEF Config!Sanitised, Config!Configs, Found

LEMMA ObjectIsNotBroken ==
  ASSUME NEW data
  PROVE  Config!Object(data) \notin Config!Broken /\ Config!Object(data).data = data
BY DEF Config!Object, Config!Broken

LEMMA DefaultIsConfig == Config!DEFAULT_CONFIG \in Config!Configs
BY PartsAssumption DEF PartsAssumption, Config!DEFAULT_CONFIG, Config!Configs

LEMMA ConfigStarts == Config!Init => ConfigInv
<1> SUFFICES ASSUME Config!Init PROVE ConfigInv
  OBVIOUS
<1>1. phase = "off" /\ APP_CONFIG = Config!DEFAULT_CONFIG /\ cut = FALSE
  BY DEF Config!Init
<1>2. CASE config_file \in Config!Broken /\ kept = Config!DEFAULT_CONFIG
  BY <1>1, <1>2, DefaultIsConfig DEF ConfigInv
<1>3. CASE \E data \in Found : config_file = Config!Object(data) /\ kept = Config!Sanitised(data)
  BY <1>1, <1>3, DefaultIsConfig, ObjectIsNotBroken DEF ConfigInv
<1> QED  BY <1>2, <1>3 DEF Config!Init, Found

LEMMA ConfigSteps ==
  ConfigInv /\ [Config!Next]_<<phase, configVars>> => ConfigInv'
<1> SUFFICES ASSUME ConfigInv, [Config!Next]_<<phase, configVars>> PROVE ConfigInv'
  OBVIOUS
<1>1. CASE Config!LoadConfig
  <2>1. UNCHANGED <<config_file, kept, cut>> /\ phase' = "loaded"
    BY <1>1 DEF Config!LoadConfig
  <2>2. APP_CONFIG' \in Config!Configs
    <3>1. CASE config_file \in Config!Broken
      BY <1>1, <3>1, DefaultIsConfig DEF Config!LoadConfig
    <3>2. CASE config_file \notin Config!Broken
      <4>1. PICK data \in Found : config_file = Config!Object(data)
        BY <3>2 DEF ConfigInv
      <4>2. APP_CONFIG' = Config!Sanitised(data)
        BY <1>1, <3>2, <4>1, ObjectIsNotBroken DEF Config!LoadConfig
      <4> QED  BY <4>2, SanitisedIsConfig
    <3> QED  BY <3>1, <3>2
  <2>3. phase = "off"
    BY <1>1 DEF Config!LoadConfig
  <2> QED  BY <2>1, <2>2, <2>3 DEF ConfigInv
<1>2. ASSUME Config!Save, APP_CONFIG' \in Config!Configs, phase = "loaded"
      PROVE  ConfigInv'
  <2>1. CASE phase' = "loaded" /\ UNCHANGED <<config_file, kept, cut>>
    BY <1>2, <2>1 DEF ConfigInv
  <2>2. CASE /\ phase' = "saving" /\ config_file' = [form |-> "cut"]
             /\ cut' = TRUE /\ UNCHANGED kept
    BY <1>2, <2>2 DEF ConfigInv, Config!Broken
  <2> QED  BY <1>2, <2>1, <2>2 DEF Config!Save
<1>3. CASE Config!SetVerify
  <2>1. APP_CONFIG' \in Config!Configs
    BY <1>3 DEF Config!SetVerify, ConfigInv, Config!Configs
  <2> QED  BY <1>2, <1>3, <2>1 DEF Config!SetVerify
<1>4. CASE Config!SetTheme
  <2>1. APP_CONFIG' \in Config!Configs
    BY <1>4 DEF Config!SetTheme, ConfigInv, Config!Configs
  <2> QED  BY <1>2, <1>4, <2>1 DEF Config!SetTheme
<1>5. CASE Config!SetLang
  <2>1. APP_CONFIG' \in Config!Configs
    BY <1>5 DEF Config!SetLang, ConfigInv, Config!Configs
  <2> QED  BY <1>2, <1>5, <2>1 DEF Config!SetLang
<1>6. CASE Config!WriteConfig
  <2>1. /\ phase' = "loaded" /\ cut' = FALSE /\ APP_CONFIG' = APP_CONFIG
        /\ config_file' = Config!Object(APP_CONFIG) /\ kept' = APP_CONFIG
    BY <1>6 DEF Config!WriteConfig
  <2>2. APP_CONFIG \in Config!Configs
    BY DEF ConfigInv
  <2>3. APP_CONFIG \in Found /\ Config!Sanitised(APP_CONFIG) = APP_CONFIG
    BY <2>2, WrittenReadsBack
  <2>4. config_file' \notin Config!Broken /\ config_file'.data = APP_CONFIG
    BY <2>1, ObjectIsNotBroken
  <2> QED  BY <2>1, <2>2, <2>3, <2>4 DEF ConfigInv
<1>7. CASE Config!WriteFails \/ Config!Ends \/ UNCHANGED <<phase, configVars>>
  BY <1>7 DEF Config!WriteFails, Config!Ends, configVars, ConfigInv
<1> QED  BY <1>1, <1>3, <1>4, <1>5, <1>6, <1>7 DEF Config!Next

\* A load gives what was kept, or the defaults if a later save was cut.
LEMMA LoadSurvives == ConfigInv /\ ConfigInv' /\ Config!Next => Config!Survives
<1> SUFFICES ASSUME ConfigInv, ConfigInv', Config!Next PROVE Config!Survives
  OBVIOUS
<1>1. phase' # "dead"
  BY DEF ConfigInv
<1>2. ASSUME phase = "off", phase' = "loaded"
      PROVE  APP_CONFIG' = IF cut THEN Config!DEFAULT_CONFIG ELSE kept
  <2>1. Config!LoadConfig
    BY <1>2 DEF Config!Next, Config!SetVerify, Config!SetTheme, Config!SetLang,
                Config!WriteConfig, Config!WriteFails, Config!Ends
  <2>2. APP_CONFIG' = IF config_file \in Config!Broken THEN Config!DEFAULT_CONFIG
                      ELSE Config!Sanitised(config_file.data)
    BY <2>1 DEF Config!LoadConfig
  <2>3. cut => config_file \in Config!Broken
    BY DEF ConfigInv, Config!Broken
  <2> QED  BY <2>2, <2>3 DEF ConfigInv
<1> QED  BY <1>1, <1>2 DEF Config!Survives

\* main.py load_config: the program starts with the settings that were last
\* saved whole, or with the defaults, whatever the file holds and wherever a
\* save was cut.
THEOREM SettingsAlwaysSurvive == Spec => SettingsSurvive
<1> DEFINE Inv == part = "config" => ConfigInv
<1>1. Init => Inv
  BY ConfigStarts DEF Init
<1>2. Inv /\ [Next]_vars => Inv'
  <2> SUFFICES ASSUME ConfigInv, part = "config", part' = "config", [Next]_vars PROVE ConfigInv'
    BY DEF Next, vars
  <2>1. CASE Next
    BY <2>1, ConfigSteps DEF Next, Step
  <2>2. CASE UNCHANGED vars
    BY <2>2, ConfigSteps DEF vars
  <2> QED  BY <2>1, <2>2
<1>3. Inv /\ Inv' /\ [Next]_vars => [part = "config" => Config!Survives]_vars
  <2> SUFFICES ASSUME Inv, Inv', Next, part = "config" PROVE Config!Survives
    BY DEF vars
  <2> QED  BY LoadSurvives DEF Next, Step
<1> QED  BY <1>1, <1>2, <1>3, PTL DEF Spec, SettingsSurvive

-----------------------------------------------------------------------------
(* The tools of a mode, on any of the distributions.                       *)

\* What the check found missing at the time, in either answer of udisks.
Missing(away) == Deps!CheckDependencies \cup Deps!CannotFormat(away)

\* What the commands that are left will bring, unless another mode was chosen,
\* completes the tools; after them nothing is missing.
DepsInv ==
  /\ mode \in Deps!Modes /\ aside \cap Deps!Mkfs = {}
  /\ phase = "prompt" => ~changed
  /\ phase \in {"warnings", "writing"} /\ ~changed => Deps!Needs(mode) \subseteq Deps!Found
  /\ phase \in {"prompt", "install"} /\ ~changed =>
       \E packages :
         /\ install_cmd = <<packages>> \/ install_cmd = <<{}, packages>>
         /\ Deps!Needs(mode) \subseteq Deps!Found \cup Deps!Provides(packages)

\* check_dependencies and the question to udisks miss no tool that a mode needs,
\* and PKG_MAP has a package with it.
LEMMA ToolIsMissed ==
  ASSUME mode \in Deps!Modes, NEW tool \in Deps!Needs(mode), tool \notin Deps!Found, NEW away
  PROVE  \E cmd \in Missing(away) : \E p \in Deps!Packages(cmd) : tool \in Deps!Contents(p)
<1>0. mode \in {"dd", "gpt", "mbr", "togo"} /\ mode # "dd"
  BY DEF Deps!Modes, Deps!Needs
<1>1. tool \in {"wimlib", "mkimage", "modules", "vfat", "ntfs"}
  BY <1>0 DEF Deps!Needs
<1>2. CASE tool = "wimlib"
  <2>1. "wimlib-imagex" \in Missing(away)
    BY <1>0, <1>2 DEF Missing, Deps!CheckDependencies, Deps!Found, Deps!Needs
  <2>2. "wimlib" \in Deps!Packages("wimlib-imagex") /\ "wimlib" \in Deps!Contents("wimlib")
    BY DEF Deps!Packages, Deps!Contents
  <2> QED  BY <1>2, <2>1, <2>2
<1>3. CASE tool \in {"mkimage", "modules"}
  <2>1. "grub-mkimage" \in Missing(away)
    BY <1>0, <1>3 DEF Missing, Deps!CheckDependencies, Deps!Found, Deps!Needs
  <2>2. \E p \in Deps!Packages("grub-mkimage") : tool \in Deps!Contents(p)
    <3>1. CASE distro = "debian"
      <4>1. Deps!Packages("grub-mkimage") = {"grub-common", "grub-pc-bin"}
        BY <3>1 DEF Deps!Packages
      <4> QED  BY <1>3, <4>1 DEF Deps!Contents
    <3>2. CASE distro = "fedora"
      <4>1. Deps!Packages("grub-mkimage") = {"grub2-tools", "grub2-pc-modules"}
        BY <3>2 DEF Deps!Packages
      <4> QED  BY <1>3, <4>1 DEF Deps!Contents
    <3>3. CASE distro \notin {"debian", "fedora"}
      <4>1. Deps!Packages("grub-mkimage") = {"grub"}
        BY <3>3 DEF Deps!Packages
      <4> QED  BY <1>3, <4>1 DEF Deps!Contents
    <3> QED  BY <3>1, <3>2, <3>3
  <2> QED  BY <2>1, <2>2
<1>4. CASE tool = "vfat"
  <2>1. "vfat" \in Missing(away)
    BY <1>0, <1>4 DEF Missing, Deps!CannotFormat, Deps!Found, Deps!Needs
  <2>2. "dosfstools" \in Deps!Packages("vfat") /\ "vfat" \in Deps!Contents("dosfstools")
    BY DEF Deps!Packages, Deps!Contents
  <2> QED  BY <1>4, <2>1, <2>2
<1>5. CASE tool = "ntfs"
  <2>1. "ntfs" \in Missing(away)
    BY <1>0, <1>5 DEF Missing, Deps!CannotFormat, Deps!Found, Deps!Needs
  <2>2. "ntfs-3g" \in Deps!Packages("ntfs") /\ "ntfs" \in Deps!Contents("ntfs-3g")
    BY DEF Deps!Packages, Deps!Contents
  <2> QED  BY <1>5, <2>1, <2>2
<1> QED  BY <1>1, <1>2, <1>3, <1>4, <1>5

\* So the packages of what is missing complete the tools.
LEMMA PackagesComplete ==
  ASSUME mode \in Deps!Modes, NEW away
  PROVE  /\ Missing(away) = {} => Deps!Needs(mode) \subseteq Deps!Found
         /\ Deps!Needs(mode) \subseteq
              Deps!Found \cup Deps!Provides(UNION {Deps!Packages(cmd) : cmd \in Missing(away)})
<1>1. ASSUME NEW tool \in Deps!Needs(mode), tool \notin Deps!Found
      PROVE  /\ Missing(away) # {}
             /\ tool \in Deps!Provides(UNION {Deps!Packages(cmd) : cmd \in Missing(away)})
  <2>1. PICK cmd \in Missing(away) : \E p \in Deps!Packages(cmd) : tool \in Deps!Contents(p)
    BY <1>1, ToolIsMissed
  <2>2. PICK p \in Deps!Packages(cmd) : tool \in Deps!Contents(p)
    BY <2>1
  <2>3. p \in UNION {Deps!Packages(c) : c \in Missing(away)}
    BY <2>2
  <2> QED  BY <2>2, <2>3 DEF Deps!Provides
<1> QED  BY <1>1

LEMMA DepsSteps == DepsInv /\ [Deps!Next]_<<phase, depsVars>> => DepsInv'
<1> SUFFICES ASSUME DepsInv, [Deps!Next]_<<phase, depsVars>> PROVE DepsInv'
  OBVIOUS
<1>1. CASE Deps!Proceed
  <2>1. PICK away \in BOOLEAN :
          /\ install_cmd' = Deps!InstallCmd(Missing(away))
          /\ phase' = IF Missing(away) = {} THEN "warnings"
                      ELSE IF install_cmd' = <<>> THEN "page" ELSE "prompt"
    BY <1>1 DEF Deps!Proceed, Missing
  <2>2. UNCHANGED <<distro, mode, tools, aside>> /\ changed' = FALSE /\ mode \in Deps!Modes
    BY <1>1 DEF Deps!Proceed, DepsInv
  <2>3. Deps!Needs(mode)' = Deps!Needs(mode) /\ Deps!Found' = Deps!Found
    BY <2>2 DEF Deps!Found
  <2>4. CASE phase' = "warnings"
    <3>1. Missing(away) = {}
      BY <2>1, <2>4
    <3>2. Deps!Needs(mode) \subseteq Deps!Found
      BY <2>2, <3>1, PackagesComplete
    <3> QED  BY <2>2, <2>3, <2>4, <3>2 DEF DepsInv
  <2>5. CASE phase' = "prompt"
    <3>0. PICK packages : packages = UNION {Deps!Packages(cmd) : cmd \in Missing(away)}
      OBVIOUS
    <3>1. install_cmd' # <<>>
      BY <2>1, <2>5
    <3>2. install_cmd' = <<packages>> \/ install_cmd' = <<{}, packages>>
      BY <2>1, <3>0, <3>1 DEF Deps!InstallCmd
    <3>3. Deps!Needs(mode) \subseteq Deps!Found \cup Deps!Provides(packages)
      BY <2>2, <3>0, PackagesComplete
    <3>4. Deps!Provides(packages)' = Deps!Provides(packages)
      OBVIOUS
    <3> QED  BY <2>2, <2>3, <2>5, <3>2, <3>3, <3>4 DEF DepsInv
  <2>6. CASE phase' = "page"
    BY <2>2, <2>6 DEF DepsInv
  <2> QED  BY <2>1, <2>4, <2>5, <2>6
<1>2. CASE Deps!RunCommand
  <2>1. /\ phase = "install" /\ Deps!Found' = Deps!Found \cup Deps!Provides(Head(install_cmd))
        /\ install_cmd' = Tail(install_cmd) /\ UNCHANGED <<distro, mode, changed>>
        /\ phase' = IF install_cmd' = <<>> THEN "warnings" ELSE "install"
    BY <1>2 DEF Deps!RunCommand, Deps!Found
  <2>0. aside' \cap Deps!Mkfs = {}
    BY <1>2 DEF Deps!RunCommand, DepsInv
  <2>2. Deps!Needs(mode)' = Deps!Needs(mode) /\ mode' \in Deps!Modes
    BY <2>1 DEF DepsInv
  <2>3. CASE changed
    BY <2>0, <2>1, <2>2, <2>3 DEF DepsInv
  <2>4. CASE ~changed
    <3>1. PICK packages :
            /\ install_cmd = <<packages>> \/ install_cmd = <<{}, packages>>
            /\ Deps!Needs(mode) \subseteq Deps!Found \cup Deps!Provides(packages)
      BY <2>1, <2>4 DEF DepsInv
    <3>2. CASE install_cmd = <<packages>>
      <4>1. Head(install_cmd) = packages /\ install_cmd' = <<>>
        BY <2>1, <3>2
      <4> QED  BY <2>0, <2>1, <2>2, <3>1, <4>1 DEF DepsInv
    <3>3. CASE install_cmd = <<{}, packages>>
      <4>1. install_cmd' = <<packages>> /\ phase' = "install"
        BY <2>1, <3>3
      <4>2. Deps!Needs(mode)' \subseteq Deps!Found' \cup Deps!Provides(packages)
        BY <2>1, <2>2, <3>1
      <4>3. Deps!Provides(packages)' = Deps!Provides(packages)
        OBVIOUS
      <4> QED  BY <2>0, <2>1, <2>2, <4>1, <4>2, <4>3 DEF DepsInv
    <3> QED  BY <3>1, <3>2, <3>3
  <2> QED  BY <2>3, <2>4
<1>3. CASE Deps!CommandFails
  BY <1>3 DEF Deps!CommandFails, DepsInv
<1>4. CASE Deps!ChooseMode
  BY <1>4 DEF Deps!ChooseMode, DepsInv
<1>5. CASE Deps!Answer \/ Deps!Warnings \/ UNCHANGED <<phase, depsVars>>
  <2>1. UNCHANGED <<distro, mode, tools, aside, install_cmd, changed>>
    BY <1>5 DEF Deps!Answer, Deps!Warnings, depsVars
  <2>2. \/ phase = "prompt" /\ phase' \in {"page", "install"}
        \/ phase = "warnings" /\ phase' \in {"page", "writing"}
        \/ phase' = phase
    BY <1>5 DEF Deps!Answer, Deps!Warnings
  <2>3. Deps!Needs(mode)' = Deps!Needs(mode) /\ Deps!Found' = Deps!Found
    BY <2>1 DEF Deps!Found
  <2> QED  BY <2>1, <2>2, <2>3 DEF DepsInv
<1> QED  BY <1>1, <1>2, <1>3, <1>4, <1>5 DEF Deps!Next

\* deps_logic.py and proceed_to_warnings: on every distribution, with any of
\* the tools there, in part or not at all, and whichever commands fail, a
\* writer that starts misses no tool but one that the check found where writers
\* do not look, and no mkfs, unless another mode was chosen while the install ran.
THEOREM ToolsAlwaysBeforeWipe == Spec => []ToolsBeforeWipe
<1> DEFINE Inv == part = "deps" => DepsInv
<1>1. Init => Inv
  BY DEF Init, Deps!Init, Deps!Mkfs, DepsInv
<1>2. Inv /\ [Next]_vars => Inv'
  <2> SUFFICES ASSUME DepsInv, part = "deps", part' = "deps", [Next]_vars PROVE DepsInv'
    BY DEF Next, vars
  <2>1. CASE Next
    BY <2>1, DepsSteps DEF Next, Step
  <2>2. CASE UNCHANGED vars
    BY <2>2, DepsSteps DEF vars
  <2> QED  BY <2>1, <2>2
<1>3. Inv => ToolsBeforeWipe
  BY DEF DepsInv, Deps!Found, ToolsBeforeWipe, Deps!ToolsBeforeWipe
<1> QED  BY <1>1, <1>2, <1>3, PTL DEF Spec

-----------------------------------------------------------------------------
(* The block list of a GRUB core of any length.                            *)

\* The first sector while the old list of e entries is cleared: what is left
\* of it, empty entries, code.
FirstSector(e) ==
  [s \in 1 .. Slots |->
     IF slot <= s /\ s <= e THEN Boot!Entry(2, 1, 1) ELSE IF s < code THEN Boot!Empty ELSE Boot!Code]

\* The list ends before the code, with an empty entry, which stops the loop.
BootInv ==
  /\ phase \in {"patch", "clear", "done", "raised"}
  /\ core_len \in CoreLengths /\ code \in 3 .. Slots
  /\ phase \in {"patch", "clear"} =>
       \E e \in 1 .. code - 2 : slot \in 1 .. e + 1 /\ core = FirstSector(e)
  /\ phase = "clear" =>
       /\ mbr = [bpb |-> "disk", table |-> "disk", core_at |-> 1]
       /\ Boot!nsec <= MAX_CORE_SECTORS /\ version = "ok"
  /\ Boot!CoreLoadsWhole

LEMMA BootStarts == Boot!Init => BootInv
<1> SUFFICES ASSUME Boot!Init PROVE BootInv
  OBVIOUS
<1>1. PICK e \in 1 .. Slots - 2 : \E first \in e + 2 .. Slots :
        /\ code = first
        /\ core = [s \in 1 .. Slots |->
                     IF s <= e THEN Boot!Entry(2, 1, 1)
                     ELSE IF s < first THEN Boot!Empty ELSE Boot!Code]
  BY DEF Boot!Init
<1>2. phase = "patch" /\ core_len \in CoreLengths /\ slot = 1
  BY DEF Boot!Init
<1>3. Slots \in Nat
  BY PartsAssumption DEF PartsAssumption
<1>4. code \in e + 2 .. Slots /\ code \in 3 .. Slots
  BY <1>1, <1>3
<1>5. core = FirstSector(e)
  BY <1>1, <1>2, <1>3 DEF FirstSector
<1>6. e \in 1 .. code - 2 /\ slot \in 1 .. e + 1
  BY <1>2, <1>3, <1>4
<1> QED  BY <1>2, <1>4, <1>5, <1>6 DEF BootInv, Boot!CoreLoadsWhole

\* The count of the sectors is one, whatever the length.
LEMMA SectorsCount == ASSUME BootInv PROVE Boot!nsec \in Nat
<1>1. core_len \in Nat \ {0} /\ SECTOR \in Nat \ {0}
  BY PartsAssumption DEF PartsAssumption, BootInv
<1> QED  BY <1>1 DEF Boot!nsec

\* The new list: one entry for all sectors but the first, or none.
LEMMA ListIsWhole ==
  ASSUME BootInv, Boot!WriteList
  PROVE  Boot!CoreLoadsWhole'
<1>0. /\ phase = "clear" /\ core[slot].length = 0 /\ phase' = "done"
      /\ UNCHANGED <<core_len, version, slot, mbr, code>>
      /\ Slots \in Nat /\ CORE_SEGMENT \in Nat /\ code \in 3 .. Slots /\ Boot!nsec \in Nat
  BY SectorsCount, PartsAssumption DEF Boot!WriteList, PartsAssumption, BootInv
<1>1. PICK e \in 1 .. code - 2 : slot \in 1 .. e + 1 /\ core = FirstSector(e)
  BY <1>0 DEF BootInv
<1>2. slot = e + 1
  <2>1. ASSUME slot <= e PROVE FALSE
    <3>1. slot \in 1 .. Slots /\ core[slot] = Boot!Entry(2, 1, 1)
      BY <1>0, <1>1, <2>1 DEF FirstSector
    <3> QED  BY <1>0, <3>1 DEF Boot!Entry
  <2> QED  BY <1>0, <1>1, <2>1
<1>3. core = [s \in 1 .. Slots |-> IF s < code THEN Boot!Empty ELSE Boot!Code]
  BY <1>0, <1>1, <1>2 DEF FirstSector
<1>4. Boot!nsec' = Boot!nsec
  BY <1>0 DEF Boot!nsec
<1> DEFINE top1 == IF Boot!nsec > 1 THEN Boot!NewEntry ELSE Boot!Empty
<1>5. core' = [s \in 1 .. Slots |->
                 IF s = 1 THEN top1 ELSE IF s < code THEN Boot!Empty ELSE Boot!Code]
  <2>1. DOMAIN core = 1 .. Slots /\ 1 \in 1 .. Slots /\ 2 \in 1 .. Slots /\ 1 < code /\ 2 < code
    BY <1>0, <1>3
  <2>2. CASE Boot!nsec > 1
    <3>1. core' = [core EXCEPT ![1] = Boot!NewEntry, ![2] = Boot!Empty]
      BY <2>2 DEF Boot!WriteList
    <3>2. core' = [s \in 1 .. Slots |-> IF s = 2 THEN Boot!Empty
                                       ELSE IF s = 1 THEN Boot!NewEntry ELSE core[s]]
      BY <2>1, <3>1
    <3> QED  BY <1>3, <2>1, <2>2, <3>2
  <2>3. CASE ~(Boot!nsec > 1)
    <3>1. core' = [core EXCEPT ![1] = Boot!Empty]
      BY <2>3 DEF Boot!WriteList
    <3>2. core' = [s \in 1 .. Slots |-> IF s = 1 THEN Boot!Empty ELSE core[s]]
      BY <2>1, <3>1
    <3> QED  BY <1>3, <2>1, <2>3, <3>2
  <2> QED  BY <2>2, <2>3
<1> HIDE DEF top1
<1>6. top1.length = (IF Boot!nsec > 1 THEN Boot!nsec - 1 ELSE 0) /\ top1 # Boot!Code
  BY <1>0 DEF top1, Boot!NewEntry, Boot!Empty, Boot!Code, Boot!Entry
<1>7. core'[1] = top1 /\ core'[2] = Boot!Empty /\ core'[2].length = 0
  BY <1>0, <1>5 DEF Boot!Empty, Boot!Entry
<1>8. Boot!Followed' = IF Boot!nsec > 1 THEN {1} ELSE {}
  <2>1. ASSUME NEW s \in 1 .. Slots, \A t \in 1 .. s : core'[t].length # 0
        PROVE  s = 1 /\ Boot!nsec > 1
    BY <1>0, <1>6, <1>7, <2>1
  <2>2. Boot!nsec > 1 => \A t \in 1 .. 1 : core'[t].length # 0
    BY <1>0, <1>6, <1>7
  <2> QED  BY <1>0, <2>1, <2>2 DEF Boot!Followed
<1>9. \A s \in 1 .. Slots : core'[s] = Boot!Code <=> s >= code
  <2>1. Boot!Empty # Boot!Code
    BY DEF Boot!Empty, Boot!Code, Boot!Entry
  <2> QED  BY <1>0, <1>5, <1>6, <2>1
<1>10. CASE Boot!nsec > 1
  <2>1. top1 = Boot!Entry(2, Boot!nsec - 1, CORE_SEGMENT)
    BY <1>10 DEF top1, Boot!NewEntry
  <2>2. Boot!Sectors(1)' = 2 .. Boot!nsec
    <3>1. core'[1].start = 2 /\ core'[1].length = Boot!nsec - 1
      BY <1>7, <2>1 DEF Boot!Entry
    <3>2. 2 + (Boot!nsec - 1) - 1 = Boot!nsec
      BY <1>0
    <3> QED  BY <3>1, <3>2 DEF Boot!Sectors
  <2>3. core'[1].segment = CORE_SEGMENT + core'[1].start - 2
    BY <1>0, <1>7, <2>1 DEF Boot!Entry
  <2>4. UNION {Boot!Sectors(s)' : s \in Boot!Followed'} = 2 .. Boot!nsec
    BY <1>8, <1>10, <2>2
  <2> QED  BY <1>0, <1>4, <1>8, <1>9, <1>10, <2>3, <2>4 DEF Boot!CoreLoadsWhole, BootInv
<1>11. CASE ~(Boot!nsec > 1)
  <2>1. 2 .. Boot!nsec = {}
    BY <1>0, <1>11
  <2>2. UNION {Boot!Sectors(s)' : s \in Boot!Followed'} = {}
    BY <1>8, <1>11
  <2> QED  BY <1>0, <1>4, <1>8, <1>9, <1>11, <2>1, <2>2 DEF Boot!CoreLoadsWhole, BootInv
<1> QED  BY <1>10, <1>11

LEMMA BootSteps == BootInv /\ [Boot!Next]_<<phase, bootVars>> => BootInv'
<1> SUFFICES ASSUME BootInv, [Boot!Next]_<<phase, bootVars>> PROVE BootInv'
  OBVIOUS
<1>1. CASE Boot!Patch
  <2>1. /\ phase = "patch" /\ UNCHANGED <<core_len, version, core, slot, code>>
        /\ mbr' = [bpb |-> "disk", table |-> "disk", core_at |-> 1]
        /\ phase' = IF Boot!TooBig \/ version # "ok" THEN "raised" ELSE "clear"
    BY <1>1 DEF Boot!Patch
  <2>2. Boot!nsec' = Boot!nsec /\ \A e : FirstSector(e)' = FirstSector(e)
    BY <2>1 DEF Boot!nsec, FirstSector
  <2>3. MAX_CORE_SECTORS \in Nat /\ Boot!nsec \in Nat
    BY SectorsCount, PartsAssumption DEF PartsAssumption
  <2>4. phase' = "clear" => Boot!nsec <= MAX_CORE_SECTORS /\ version = "ok"
    BY <2>1, <2>3 DEF Boot!TooBig
  <2> QED  BY <2>1, <2>2, <2>4 DEF BootInv, Boot!CoreLoadsWhole
<1>2. CASE Boot!ClearEntry
  <2>1. /\ phase = "clear" /\ core[slot].length # 0 /\ UNCHANGED <<phase, core_len, version, mbr, code>>
        /\ core' = [core EXCEPT ![slot] = Boot!Empty] /\ slot' = slot + 1
        /\ Slots \in Nat /\ code \in 3 .. Slots
    BY <1>2, PartsAssumption DEF Boot!ClearEntry, PartsAssumption, BootInv
  <2>2. PICK e \in 1 .. code - 2 : slot \in 1 .. e + 1 /\ core = FirstSector(e)
    BY <2>1 DEF BootInv
  <2>3. slot <= e
    <3>1. ASSUME slot = e + 1 PROVE FALSE
      <4>1. slot \in 1 .. Slots /\ slot < code /\ ~(slot <= e)
        BY <2>1, <2>2, <3>1
      <4>2. core[slot] = Boot!Empty
        BY <2>2, <4>1 DEF FirstSector
      <4> QED  BY <2>1, <4>2 DEF Boot!Empty, Boot!Entry
    <3> QED  BY <2>1, <2>2, <3>1
  <2>4. core' = FirstSector(e)'
    <3>1. core' = [s \in 1 .. Slots |-> IF s = slot THEN Boot!Empty ELSE core[s]]
      <4>1. DOMAIN core = 1 .. Slots
        BY <2>2 DEF FirstSector
      <4> QED  BY <2>1, <4>1
    <3>2. ASSUME NEW s \in 1 .. Slots
          PROVE  core'[s] = IF slot + 1 <= s /\ s <= e THEN Boot!Entry(2, 1, 1)
                            ELSE IF s < code THEN Boot!Empty ELSE Boot!Code
      <4>1. core[s] = IF slot <= s /\ s <= e THEN Boot!Entry(2, 1, 1)
                      ELSE IF s < code THEN Boot!Empty ELSE Boot!Code
        BY <2>2 DEF FirstSector
      <4>2. core'[s] = IF s = slot THEN Boot!Empty ELSE core[s]
        BY <3>1
      <4>3. slot < code
        BY <2>1, <2>2, <2>3
      <4> QED  BY <2>1, <2>2, <4>1, <4>2, <4>3
    <3> QED  BY <2>1, <3>1, <3>2 DEF FirstSector
  <2>5. slot' \in 1 .. e + 1 /\ Boot!nsec' = Boot!nsec
    BY <2>1, <2>2, <2>3 DEF Boot!nsec
  <2> QED  BY <2>1, <2>2, <2>4, <2>5 DEF BootInv, Boot!CoreLoadsWhole
<1>3. CASE Boot!WriteList
  BY <1>3, ListIsWhole DEF Boot!WriteList, BootInv
<1>4. CASE UNCHANGED <<phase, bootVars>>
  <2>1. UNCHANGED <<phase, core_len, version, core, slot, mbr, code>>
    BY <1>4 DEF bootVars
  <2>2. Boot!nsec' = Boot!nsec /\ \A e : FirstSector(e)' = FirstSector(e)
    BY <2>1 DEF Boot!nsec, FirstSector
  <2>3. Boot!CoreLoadsWhole'
    BY <2>1, <2>2 DEF BootInv, Boot!CoreLoadsWhole, Boot!Followed, Boot!Sectors
  <2> QED  BY <2>1, <2>2, <2>3 DEF BootInv
<1> QED  BY <1>1, <1>2, <1>3, <1>4 DEF Boot!Next

\* bios_boot_code: whatever the length of core.img and of the list that
\* grub-mkimage left in it, the BIOS loads the whole core, once and in order,
\* nothing of the partition behind it, and the code stays as it was.
THEOREM CoreAlwaysLoadsWhole == Spec => []CoreLoadsWhole
<1> DEFINE Inv == part = "boot" => BootInv
<1>1. Init => Inv
  BY BootStarts DEF Init
<1>2. Inv /\ [Next]_vars => Inv'
  <2> SUFFICES ASSUME BootInv, part = "boot", part' = "boot", [Next]_vars PROVE BootInv'
    BY DEF Next, vars
  <2>1. CASE Next
    BY <2>1, BootSteps DEF Next, Step
  <2>2. CASE UNCHANGED vars
    BY <2>2, BootSteps DEF vars
  <2> QED  BY <2>1, <2>2
<1>3. Inv => CoreLoadsWhole
  BY DEF BootInv, CoreLoadsWhole
<1> QED  BY <1>1, <1>2, <1>3, PTL DEF Spec

-----------------------------------------------------------------------------
(* The catalogue of a .po file of any number of entries and of any texts,  *)
(* however it is laid out in lines.                                        *)

PoWords == UNION {Po!ToSet(text) : text \in Ids \cup Strings}
PoTexts == [msgid : Seq(PoWords), msgstr : Seq(PoWords)]

\* What the first n entries add to the catalogue.
Translated(e) == e.msgid # <<>> /\ e.msgstr # <<>> /\ e.fuzzy = FALSE
Said(e) == [msgid |-> e.msgid, msgstr |-> e.msgstr]
UpTo(n) == {Said(po[i]) : i \in {j \in 1 .. n : Translated(po[j])}}

PoTypes ==
  /\ phase \in {"read", "done"} /\ place \in {"start", "flagged", "msgid", "msgstr"}
  /\ po \in Seq([msgid : Ids, msgstr : Strings, fuzzy : BOOLEAN]) /\ nth \in 1 .. Len(po)
  /\ rest \in Seq(PoWords) /\ entry \in PoTexts /\ fuzzy \in BOOLEAN

\* Nothing of an entry is held, and none is begun.
Idle == field = "none" /\ entry = Po!NoEntry /\ fuzzy = FALSE

\* Where the reader is in the file is what it holds: the entries before this
\* one, and of this one what was read of it.
PoInv ==
  /\ PoTypes
  /\ place = "start" => Po!Flushed = UpTo(nth - 1) /\ rest = <<>> /\ (Idle \/ field = "msgstr")
  /\ place \in {"flagged", "msgid"} => catalog = UpTo(nth - 1) /\ fuzzy = po[nth].fuzzy
  /\ place = "flagged" => rest = <<>> /\ field = "none" /\ entry = Po!NoEntry /\ fuzzy = TRUE
  /\ place = "msgid" =>
       field = "msgid" /\ entry.msgid \o rest = po[nth].msgid /\ entry.msgstr = <<>>
  /\ place = "msgstr" /\ phase = "read" =>
       \/ /\ catalog = UpTo(nth - 1) /\ fuzzy = po[nth].fuzzy /\ field = "msgstr"
          /\ entry.msgid = po[nth].msgid /\ entry.msgstr \o rest = po[nth].msgstr
       \/ Idle /\ rest = <<>> /\ catalog = UpTo(nth)
  /\ phase = "done" => place = "msgstr" /\ catalog = UpTo(Len(po))

LEMMA TextsAreWords ==
  ASSUME NEW e \in [msgid : Ids, msgstr : Strings, fuzzy : BOOLEAN]
  PROVE  e.msgid \in Seq(PoWords) /\ e.msgstr \in Seq(PoWords)
<1>1. ASSUME NEW text \in Ids \cup Strings PROVE text \in Seq(PoWords)
  <2>1. text \in Seq(Po!ToSet(text))
    BY PoAssumption DEF Po!Texts
  <2>2. Po!ToSet(text) \subseteq PoWords
    BY DEF PoWords
  <2> QED  BY <2>1, <2>2, SeqMonotonic
<1>2. e.msgid \in Ids /\ e.msgstr \in Strings
  OBVIOUS
<1> QED  BY <1>1, <1>2

\* Where a text is cut its halves make it up.
LEMMA CutText ==
  ASSUME NEW text \in Seq(PoWords), NEW n \in 0 .. Len(text)
  PROVE  /\ SubSeq(text, 1, n) \in Seq(PoWords) /\ SubSeq(text, n + 1, Len(text)) \in Seq(PoWords)
         /\ SubSeq(text, 1, n) \o SubSeq(text, n + 1, Len(text)) = text
<1>1. Len(text) \in Nat
  BY LenProperties
<1>2. SubSeq(text, 1, Len(text)) = text
  BY SubSeqFull
<1>3. SubSeq(text, 1, n) \o SubSeq(text, n + 1, Len(text)) = SubSeq(text, 1, Len(text))
  <2>1. 1 \in 1 .. Len(text) + 1 /\ n \in 1 - 1 .. Len(text) /\ Len(text) \in n .. Len(text)
    BY <1>1
  <2> QED  BY <2>1, ConcatAdjacentSubSeq
<1>4. \A i \in 1 .. Len(text) : text[i] \in PoWords
  BY ElementOfSeq
<1>5. SubSeq(text, 1, n) \in Seq(PoWords)
  BY <1>1, <1>4, SubSeqProperties
<1>6. SubSeq(text, n + 1, Len(text)) \in Seq(PoWords)
  BY <1>1, <1>4, SubSeqProperties
<1> QED  BY <1>2, <1>3, <1>5, <1>6

\* A string line takes the next word of what is left over to what was read.
LEMMA NextWord ==
  ASSUME NEW before \in Seq(PoWords), NEW left \in Seq(PoWords), left # <<>>
  PROVE  /\ before \o <<Head(left)>> \in Seq(PoWords) /\ Tail(left) \in Seq(PoWords)
         /\ (before \o <<Head(left)>>) \o Tail(left) = before \o left
<1>1. Head(left) \in PoWords /\ Tail(left) \in Seq(PoWords)
  BY HeadTailProperties
<1>2. <<Head(left)>> \in Seq(PoWords)
  BY <1>1
<1>3. <<Head(left)>> \o Tail(left) = left
  OBVIOUS
<1>4. (before \o <<Head(left)>>) \o Tail(left) = before \o (<<Head(left)>> \o Tail(left))
  BY <1>1, <1>2, ConcatAssociative
<1> QED  BY <1>1, <1>2, <1>3, <1>4

LEMMA NothingLeft ==
  ASSUME NEW text \in Seq(PoWords)
  PROVE  text \o <<>> = text
BY ConcatEmptySeq

\* flush: of an entry that is read whole the catalogue has what it should.
LEMMA EntryFlushed ==
  ASSUME PoTypes, catalog = UpTo(nth - 1), entry = Said(po[nth]), fuzzy = po[nth].fuzzy
  PROVE  Po!Flushed = UpTo(nth)
<1>1. nth \in Nat /\ Len(po) \in Nat /\ nth \in 1 .. Len(po)
  BY LenProperties DEF PoTypes
<1>2. \A j \in 1 .. nth : j \in 1 .. nth - 1 \/ j = nth
  BY <1>1
<1>3. nth \in 1 .. nth /\ \A j \in 1 .. nth - 1 : j \in 1 .. nth
  BY <1>1
<1>4. entry.msgid = po[nth].msgid /\ entry.msgstr = po[nth].msgstr
  BY DEF Said
<1>5. CASE Translated(po[nth])
  <2>1. Po!Flushed = UpTo(nth - 1) \cup {Said(po[nth])}
    BY <1>4, <1>5 DEF Po!Flushed, Translated
  <2>2. UpTo(nth) = UpTo(nth - 1) \cup {Said(po[nth])}
    BY <1>2, <1>3, <1>5 DEF UpTo
  <2> QED  BY <2>1, <2>2
<1>6. CASE ~Translated(po[nth])
  <2>1. Po!Flushed = UpTo(nth - 1)
    <3>1. fuzzy \in BOOLEAN
      BY DEF PoTypes
    <3> QED  BY <1>4, <1>6, <3>1 DEF Po!Flushed, Translated
  <2>2. UpTo(nth) = UpTo(nth - 1)
    BY <1>2, <1>3, <1>6 DEF UpTo
  <2> QED  BY <2>1, <2>2
<1> QED  BY <1>5, <1>6

LEMMA WholeFlushed ==
  ASSUME PoTypes, catalog = UpTo(nth - 1), fuzzy = po[nth].fuzzy, rest = <<>>,
         entry.msgid = po[nth].msgid, entry.msgstr \o rest = po[nth].msgstr
  PROVE  Po!Flushed = UpTo(nth)
<1>1. entry \in PoTexts
  BY DEF PoTypes
<1>2. entry = Said(entry) /\ entry.msgstr \in Seq(PoWords)
  BY <1>1 DEF PoTexts, Said
<1>3. entry.msgstr = po[nth].msgstr
  BY <1>2, NothingLeft
<1>4. entry = Said(po[nth])
  BY <1>2, <1>3 DEF Said
<1> QED  BY <1>4, EntryFlushed

LEMMA IdleFlushed == (Idle => Po!Flushed = catalog) /\ (Idle' => Po!Flushed' = catalog')
BY DEF Idle, Po!Flushed, Po!NoEntry

\* What stays when the reader goes on in an entry.
LEMMA UpToStays ==
  ASSUME UNCHANGED po
  PROVE  \A n : UpTo(n)' = UpTo(n)
BY DEF UpTo, Translated, Said

\* The lines that only end an entry, or are in none.
LEMMA BlankLine ==
  ASSUME NEW text, Po!Read("blank", text)
  PROVE  catalog' = Po!Flushed /\ Idle'
BY DEF Po!Read, Po!Starts, Idle

LEMMA CommentLine ==
  ASSUME NEW text, Po!Read("comment", text)
  PROVE  /\ field = "msgstr" => catalog' = Po!Flushed /\ Idle'
         /\ field # "msgstr" => UNCHANGED <<catalog, field, entry>> /\ (fuzzy' <=> fuzzy)
BY DEF Po!Read, Po!Starts, Idle

LEMMA FlagLine ==
  ASSUME NEW text, Po!Read("flag", text)
  PROVE  /\ catalog' = (IF field = "msgstr" THEN Po!Flushed ELSE catalog) /\ fuzzy' = TRUE
         /\ field = "msgstr" => field' = "none" /\ entry' = Po!NoEntry
         /\ field # "msgstr" => UNCHANGED <<field, entry>>
BY DEF Po!Read, Po!Starts

LEMMA FieldSet ==
  ASSUME NEW e \in PoTexts, NEW text
  PROVE  /\ [e EXCEPT !.msgid = text] = [msgid |-> text, msgstr |-> e.msgstr]
         /\ [e EXCEPT !.msgstr = text] = [msgid |-> e.msgid, msgstr |-> text]
BY DEF PoTexts

LEMMA MsgidLine ==
  ASSUME NEW text \in Seq(PoWords), Po!Read("msgid", text), entry = Po!NoEntry \/ field = "msgstr"
  PROVE  /\ catalog' = (IF field = "msgstr" THEN Po!Flushed ELSE catalog)
         /\ field = "msgstr" => fuzzy' = FALSE
         /\ field # "msgstr" => (fuzzy' <=> fuzzy)
         /\ field' = "msgid" /\ entry' = [msgid |-> text, msgstr |-> <<>>]
<1>1. entry' = [Po!NoEntry EXCEPT !.msgid = text]
  BY DEF Po!Read, Po!Starts
<1>2. [Po!NoEntry EXCEPT !.msgid = text] = [msgid |-> text, msgstr |-> <<>>]
  BY DEF Po!NoEntry
<1> QED  BY <1>1, <1>2 DEF Po!Read, Po!Starts

LEMMA MsgstrLine ==
  ASSUME NEW text \in Seq(PoWords), Po!Read("msgstr", text), entry \in PoTexts
  PROVE  /\ catalog' = catalog /\ (fuzzy' <=> fuzzy)
         /\ field' = "msgstr" /\ entry' = [msgid |-> entry.msgid, msgstr |-> text]
<1>1. entry' = [entry EXCEPT !.msgstr = text]
  BY DEF Po!Read, Po!Starts
<1>2. [entry EXCEPT !.msgstr = text] = [msgid |-> entry.msgid, msgstr |-> text]
  BY FieldSet
<1> QED  BY <1>1, <1>2 DEF Po!Read, Po!Starts

LEMMA StringLine ==
  ASSUME NEW text \in Seq(PoWords), Po!Read("string", text), entry \in PoTexts
  PROVE  /\ catalog' = catalog /\ (fuzzy' <=> fuzzy) /\ field' = field
         /\ field = "msgid" => entry' = [msgid |-> entry.msgid \o text, msgstr |-> entry.msgstr]
         /\ field = "msgstr" => entry' = [msgid |-> entry.msgid, msgstr |-> entry.msgstr \o text]
<1>1. field = "msgid" => entry' = [entry EXCEPT !.msgid = entry.msgid \o text]
  BY DEF Po!Read, Po!Starts
<1>2. field = "msgstr" => entry' = [entry EXCEPT !.msgstr = entry.msgstr \o text]
  BY DEF Po!Read, Po!Starts
<1>3. /\ [entry EXCEPT !.msgid = entry.msgid \o text]
           = [msgid |-> entry.msgid \o text, msgstr |-> entry.msgstr]
      /\ [entry EXCEPT !.msgstr = entry.msgstr \o text]
           = [msgid |-> entry.msgid, msgstr |-> entry.msgstr \o text]
  BY FieldSet
<1> QED  BY <1>1, <1>2, <1>3 DEF Po!Read, Po!Starts

LEMMA PoStarts == Po!Init => PoInv
<1> SUFFICES ASSUME Po!Init PROVE PoInv
  OBVIOUS
<1>1. PICK n \in 1 .. MaxEntries : po \in [1 .. n -> [msgid : Ids, msgstr : Strings, fuzzy : BOOLEAN]]
  BY DEF Po!Init
<1>2. n \in Nat /\ 1 <= n
  <2>1. MaxEntries \in Nat \ {0}
    BY PartsAssumption DEF PartsAssumption
  <2> QED  BY <2>1
<1>3. po \in Seq([msgid : Ids, msgstr : Strings, fuzzy : BOOLEAN]) /\ Len(po) = n
  <2>1. \A S : po \in [1 .. n -> S] => po \in Seq(S) /\ Len(po) = n
    BY <1>2
  <2> QED  BY <1>1, <2>1
<1>4. /\ phase = "read" /\ nth = 1 /\ place = "start" /\ rest = <<>> /\ catalog = {}
      /\ entry = Po!NoEntry /\ field = "none" /\ fuzzy = FALSE
  BY DEF Po!Init
<1>5. Idle /\ Po!Flushed = {}
  BY <1>4, IdleFlushed DEF Idle
<1>6. UpTo(nth - 1) = {}
  <2>1. 1 .. nth - 1 = {}
    BY <1>4
  <2> QED  BY <2>1 DEF UpTo
<1>7. PoTypes
  <2>1. entry \in PoTexts
    BY <1>4 DEF PoTexts, Po!NoEntry
  <2>2. nth \in 1 .. Len(po)
    BY <1>2, <1>3, <1>4
  <2>3. <<>> \in Seq(PoWords)
    OBVIOUS
  <2>4. fuzzy \in BOOLEAN
    BY <1>4, Zenon
  <2> QED  BY <1>3, <1>4, <2>1, <2>2, <2>3, <2>4 DEF PoTypes
<1> QED  BY <1>4, <1>5, <1>6, <1>7 DEF PoInv

LEMMA NoEntryIsText == Po!NoEntry \in PoTexts /\ <<>> \in Seq(PoWords)
<1>1. <<>> \in Seq(PoWords)
  OBVIOUS
<1> QED  BY <1>1 DEF Po!NoEntry, PoTexts

LEMMA BlankKeeps == PoInv /\ Po!Blank => PoInv'
<1> SUFFICES ASSUME PoInv, Po!Blank PROVE PoInv'
  OBVIOUS
<1>1. phase = "read" /\ UNCHANGED <<phase, po, nth, place, rest>> /\ catalog' = Po!Flushed /\ Idle'
  BY BlankLine DEF Po!Blank, Po!Reading
<1>2. Po!Flushed' = Po!Flushed
  BY <1>1, IdleFlushed
<1>3. \A n : UpTo(n)' = UpTo(n)
  BY <1>1, UpToStays
<1>4. PoTypes'
  BY <1>1, NoEntryIsText DEF PoInv, PoTypes, Idle
<1>5. CASE place = "start"
  BY <1>1, <1>2, <1>3, <1>4, <1>5 DEF PoInv
<1>6. CASE place = "msgstr" /\ rest = <<>>
  <2>1. catalog' = UpTo(nth)
    <3>1. CASE Idle /\ catalog = UpTo(nth)
      BY <1>1, <3>1, IdleFlushed
    <3>2. CASE /\ catalog = UpTo(nth - 1) /\ fuzzy = po[nth].fuzzy
               /\ entry.msgid = po[nth].msgid /\ entry.msgstr \o rest = po[nth].msgstr
      BY <1>1, <1>6, <3>2, WholeFlushed DEF PoInv
    <3> QED  BY <1>1, <1>6, <3>1, <3>2 DEF PoInv
  <2> QED  BY <1>1, <1>3, <1>4, <1>6, <2>1 DEF PoInv
<1> QED  BY <1>5, <1>6 DEF Po!Blank, Po!EntryEnds

LEMMA CommentKeeps == PoInv /\ Po!Comment => PoInv'
<1> SUFFICES ASSUME PoInv, Po!Comment PROVE PoInv'
  OBVIOUS
<1>1. /\ phase = "read" /\ UNCHANGED <<phase, po, nth, place, rest>> /\ place \in {"start", "flagged"}
      /\ Po!Read("comment", <<>>)
  BY DEF Po!Comment, Po!Reading
<1>2. \A n : UpTo(n)' = UpTo(n)
  BY <1>1, UpToStays
<1>3. CASE field = "msgstr"
  <2>1. place = "start" /\ catalog' = Po!Flushed /\ Idle'
    BY <1>1, <1>3, CommentLine DEF PoInv
  <2>2. Po!Flushed' = Po!Flushed
    BY <2>1, IdleFlushed
  <2>3. PoTypes'
    BY <1>1, <2>1, NoEntryIsText DEF PoInv, PoTypes, Idle
  <2> QED  BY <1>1, <1>2, <2>1, <2>2, <2>3 DEF PoInv
<1>4. CASE field # "msgstr"
  <2>1. UNCHANGED <<catalog, field, entry>> /\ (fuzzy' <=> fuzzy)
    BY <1>1, <1>4, CommentLine
  <2>2. fuzzy' \in BOOLEAN
    BY DEF Po!Comment, Po!Read
  <2>3. fuzzy' = fuzzy /\ fuzzy \in BOOLEAN
    BY <2>1, <2>2 DEF PoInv, PoTypes
  <2>4. Idle' <=> Idle
    BY <2>1, <2>3 DEF Idle
  <2>5. Po!Flushed' = Po!Flushed
    BY <2>1, <2>3 DEF Po!Flushed
  <2>6. PoTypes'
    BY <1>1, <2>1, <2>3 DEF PoInv, PoTypes
  <2> QED  BY <1>1, <1>2, <2>1, <2>3, <2>4, <2>5, <2>6 DEF PoInv
<1> QED  BY <1>3, <1>4

LEMMA FlagKeeps == PoInv /\ Po!Flag => PoInv'
<1> SUFFICES ASSUME PoInv, Po!Flag PROVE PoInv'
  OBVIOUS
<1>1. /\ phase = "read" /\ UNCHANGED <<phase, po, nth, rest>> /\ place = "start" /\ place' = "flagged"
      /\ po[nth].fuzzy /\ Po!Read("flag", <<>>)
  BY DEF Po!Flag, Po!Reading
<1>2. \A n : UpTo(n)' = UpTo(n)
  BY <1>1, UpToStays
<1>3. fuzzy' = TRUE /\ field' = "none" /\ entry' = Po!NoEntry /\ catalog' = UpTo(nth - 1)
  BY <1>1, FlagLine, IdleFlushed DEF PoInv, Idle
<1>4. po[nth].fuzzy \in BOOLEAN
  <2>1. po[nth] \in [msgid : Ids, msgstr : Strings, fuzzy : BOOLEAN]
    BY ElementOfSeq DEF PoInv, PoTypes
  <2> QED  BY <2>1
<1>5. fuzzy' = po[nth].fuzzy
  BY <1>1, <1>3, <1>4
<1>6. PoTypes'
  <2>1. fuzzy' \in BOOLEAN
    BY <1>3, Zenon
  <2> QED  BY <1>1, <1>3, <2>1, NoEntryIsText DEF PoInv, PoTypes
<1> QED  BY <1>1, <1>2, <1>3, <1>5, <1>6 DEF PoInv

\* The keyword of a string takes what stands on its line.
LEMMA KeywordCuts ==
  ASSUME NEW line \in {"msgid", "msgstr"}, NEW text \in Seq(PoWords), Po!Keyword(line, text)
  PROVE  \E begun \in Seq(PoWords) :
           /\ Po!Read(line, begun) /\ begun \o rest' = text /\ rest' \in Seq(PoWords)
           /\ place' = line /\ nth' = nth
<1>1. PICK n \in 0 .. Len(text) :
        /\ Po!Read(line, SubSeq(text, 1, n)) /\ rest' = SubSeq(text, n + 1, Len(text))
        /\ place' = line /\ UNCHANGED nth
  BY DEF Po!Keyword
<1>2. /\ SubSeq(text, 1, n) \in Seq(PoWords) /\ SubSeq(text, n + 1, Len(text)) \in Seq(PoWords)
      /\ SubSeq(text, 1, n) \o SubSeq(text, n + 1, Len(text)) = text
  BY CutText
<1> QED  BY <1>1, <1>2

LEMMA EntryTyped ==
  ASSUME PoInv
  PROVE  po[nth] \in [msgid : Ids, msgstr : Strings, fuzzy : BOOLEAN]
BY ElementOfSeq DEF PoInv, PoTypes

LEMMA MsgidKeeps == PoInv /\ Po!Msgid => PoInv'
<1> SUFFICES ASSUME PoInv, Po!Msgid PROVE PoInv'
  OBVIOUS
<1>1. /\ phase = "read" /\ UNCHANGED <<phase, po>>
      /\ place = IF po[nth].fuzzy THEN "flagged" ELSE "start"
  BY DEF Po!Msgid, Po!Reading
<1>2. po[nth].msgid \in Seq(PoWords) /\ po[nth].fuzzy \in BOOLEAN
  BY EntryTyped, TextsAreWords
<1>3. PICK begun \in Seq(PoWords) :
        /\ Po!Read("msgid", begun) /\ begun \o rest' = po[nth].msgid /\ rest' \in Seq(PoWords)
        /\ place' = "msgid" /\ nth' = nth
  BY <1>2, KeywordCuts DEF Po!Msgid
<1>4. \A n : UpTo(n)' = UpTo(n)
  BY <1>1, UpToStays
<1>5. entry = Po!NoEntry \/ field = "msgstr"
  BY <1>1 DEF PoInv, Idle
<1>6. field' = "msgid" /\ entry' = [msgid |-> begun, msgstr |-> <<>>]
  BY <1>3, <1>5, MsgidLine
<1>7. catalog' = UpTo(nth - 1) /\ fuzzy' = po[nth].fuzzy
  <2>1. CASE po[nth].fuzzy
    <3>1. place = "flagged" /\ field = "none" /\ fuzzy = TRUE /\ catalog = UpTo(nth - 1)
      BY <1>1, <2>1 DEF PoInv
    <3>2. catalog' = catalog /\ (fuzzy' <=> fuzzy)
      BY <1>3, <1>5, <3>1, MsgidLine
    <3>3. fuzzy' \in BOOLEAN
      BY <1>3 DEF Po!Read
    <3> QED  BY <1>2, <2>1, <3>1, <3>2, <3>3
  <2>2. CASE ~po[nth].fuzzy
    <3>1. place = "start" /\ Po!Flushed = UpTo(nth - 1) /\ (Idle \/ field = "msgstr")
      BY <1>1, <2>2 DEF PoInv
    <3>2. catalog' = Po!Flushed /\ ~fuzzy'
      <4>1. CASE field = "msgstr"
        BY <1>3, <1>5, <4>1, MsgidLine
      <4>2. CASE field # "msgstr" /\ Idle
        BY <1>3, <1>5, <4>2, MsgidLine, IdleFlushed DEF Idle
      <4> QED  BY <3>1, <4>1, <4>2
    <3>3. fuzzy' \in BOOLEAN
      BY <1>3 DEF Po!Read
    <3> QED  BY <1>2, <2>2, <3>1, <3>2, <3>3
  <2> QED  BY <2>1, <2>2
<1>8. entry'.msgid \o rest' = po[nth].msgid /\ entry'.msgstr = <<>> /\ entry' \in PoTexts
  BY <1>3, <1>6, NoEntryIsText DEF PoTexts
<1>9. PoTypes'
  BY <1>1, <1>2, <1>3, <1>7, <1>8 DEF PoInv, PoTypes
<1> QED  BY <1>1, <1>3, <1>4, <1>6, <1>7, <1>8, <1>9 DEF PoInv

LEMMA MsgstrKeeps == PoInv /\ Po!Msgstr => PoInv'
<1> SUFFICES ASSUME PoInv, Po!Msgstr PROVE PoInv'
  OBVIOUS
<1>1. phase = "read" /\ UNCHANGED <<phase, po>> /\ place = "msgid" /\ rest = <<>>
  BY DEF Po!Msgstr, Po!Reading
<1>2. po[nth].msgstr \in Seq(PoWords)
  BY EntryTyped, TextsAreWords
<1>3. PICK begun \in Seq(PoWords) :
        /\ Po!Read("msgstr", begun) /\ begun \o rest' = po[nth].msgstr /\ rest' \in Seq(PoWords)
        /\ place' = "msgstr" /\ nth' = nth
  BY <1>2, KeywordCuts DEF Po!Msgstr
<1>4. \A n : UpTo(n)' = UpTo(n)
  BY <1>1, UpToStays
<1>5. /\ entry \in PoTexts /\ fuzzy \in BOOLEAN /\ catalog = UpTo(nth - 1) /\ fuzzy = po[nth].fuzzy
      /\ entry.msgid \o rest = po[nth].msgid
  BY <1>1 DEF PoInv, PoTypes
<1>6. entry.msgid \in Seq(PoWords)
  BY <1>5 DEF PoTexts
<1>7. entry.msgid = po[nth].msgid
  BY <1>1, <1>5, <1>6, NothingLeft
<1>8. /\ catalog' = catalog /\ (fuzzy' <=> fuzzy) /\ field' = "msgstr"
      /\ entry' = [msgid |-> entry.msgid, msgstr |-> begun]
  BY <1>3, <1>5, MsgstrLine
<1>9. fuzzy' = fuzzy
  <2>1. fuzzy' \in BOOLEAN
    BY <1>3 DEF Po!Read
  <2> QED  BY <1>5, <1>8, <2>1
<1>10. /\ entry'.msgid = po[nth].msgid /\ entry'.msgstr \o rest' = po[nth].msgstr
       /\ entry' \in PoTexts
  BY <1>3, <1>6, <1>7, <1>8 DEF PoTexts
<1>11. PoTypes'
  BY <1>1, <1>3, <1>5, <1>9, <1>10 DEF PoInv, PoTypes
<1> QED  BY <1>1, <1>3, <1>4, <1>5, <1>8, <1>9, <1>10, <1>11 DEF PoInv

LEMMA TextsMakeEntry ==
  ASSUME NEW id \in Seq(PoWords), NEW text \in Seq(PoWords)
  PROVE  /\ [msgid |-> id, msgstr |-> text] \in PoTexts
         /\ [msgid |-> id, msgstr |-> text].msgid = id
         /\ [msgid |-> id, msgstr |-> text].msgstr = text
BY DEF PoTexts

LEMMA MoreKeeps == PoInv /\ Po!MoreString => PoInv'
<1> SUFFICES ASSUME PoInv, Po!MoreString PROVE PoInv'
  OBVIOUS
<1>1. /\ phase = "read" /\ UNCHANGED <<phase, po, nth, place>> /\ rest # <<>> /\ rest' = Tail(rest)
      /\ Po!Read("string", <<Head(rest)>>)
  BY DEF Po!MoreString, Po!Reading
<1>2. \A n : UpTo(n)' = UpTo(n)
  BY <1>1, UpToStays
<1>3. entry \in PoTexts /\ rest \in Seq(PoWords) /\ fuzzy \in BOOLEAN
  BY DEF PoInv, PoTypes
<1>4. entry.msgid \in Seq(PoWords) /\ entry.msgstr \in Seq(PoWords)
  BY <1>3 DEF PoTexts
<1>5. Head(rest) \in PoWords /\ Tail(rest) \in Seq(PoWords) /\ rest' \in Seq(PoWords)
  BY <1>1, <1>3, HeadTailProperties
<1> DEFINE word == <<Head(rest)>>
<1>6. word \in Seq(PoWords)
  BY <1>5
<1>7. \A before \in Seq(PoWords) :
        before \o word \in Seq(PoWords) /\ (before \o word) \o Tail(rest) = before \o rest
  BY <1>1, <1>3, NextWord
<1> HIDE DEF word
<1>8. Po!Read("string", word)
  BY <1>1 DEF word
<1>9. /\ catalog' = catalog /\ (fuzzy' <=> fuzzy) /\ field' = field
      /\ field = "msgid" => entry' = [msgid |-> entry.msgid \o word, msgstr |-> entry.msgstr]
      /\ field = "msgstr" => entry' = [msgid |-> entry.msgid, msgstr |-> entry.msgstr \o word]
  BY <1>3, <1>6, <1>8, StringLine
<1>10. fuzzy' = fuzzy
  <2>1. fuzzy' \in BOOLEAN
    BY <1>8 DEF Po!Read
  <2> QED  BY <1>3, <1>9, <2>1
<1>11. /\ UNCHANGED <<phase, po, nth, place>> /\ rest' \in Seq(PoWords) /\ fuzzy' \in BOOLEAN
       /\ PoTypes
  BY <1>1, <1>3, <1>5, <1>10 DEF PoInv
<1>12. CASE place = "msgid"
  <2>1. field = "msgid" /\ entry.msgid \o rest = po[nth].msgid /\ entry.msgstr = <<>>
    BY <1>12 DEF PoInv
  <2>2. entry'.msgid = entry.msgid \o word /\ entry'.msgstr = <<>> /\ entry' \in PoTexts
    <3> DEFINE longer == entry.msgid \o word
    <3>1. longer \in Seq(PoWords)
      BY <1>4, <1>7
    <3>2. entry' = [msgid |-> longer, msgstr |-> entry.msgstr]
      BY <1>9, <2>1
    <3> HIDE DEF longer
    <3>3. /\ entry'.msgid = longer /\ entry'.msgstr = entry.msgstr
          /\ entry' \in PoTexts
      BY <1>4, <3>1, <3>2, TextsMakeEntry
    <3> QED  BY <2>1, <3>3 DEF longer
  <2>3. entry'.msgid \o rest' = po[nth].msgid
    BY <1>1, <1>4, <1>7, <2>1, <2>2
  <2>4. PoTypes'
    BY <1>11, <2>2 DEF PoTypes
  <2> QED  BY <1>1, <1>2, <1>9, <1>10, <1>12, <2>1, <2>2, <2>3, <2>4 DEF PoInv
<1>13. CASE place = "msgstr"
  <2>1. /\ catalog = UpTo(nth - 1) /\ fuzzy = po[nth].fuzzy /\ field = "msgstr"
        /\ entry.msgid = po[nth].msgid /\ entry.msgstr \o rest = po[nth].msgstr
    BY <1>1, <1>13 DEF PoInv
  <2>2. entry'.msgid = entry.msgid /\ entry'.msgstr = entry.msgstr \o word /\ entry' \in PoTexts
    <3> DEFINE longer == entry.msgstr \o word
    <3>1. longer \in Seq(PoWords)
      BY <1>4, <1>7
    <3>2. entry' = [msgid |-> entry.msgid, msgstr |-> longer]
      BY <1>9, <2>1
    <3> HIDE DEF longer
    <3>3. /\ entry'.msgstr = longer /\ entry'.msgid = entry.msgid
          /\ entry' \in PoTexts
      BY <1>4, <3>1, <3>2, TextsMakeEntry
    <3> QED  BY <2>1, <3>3 DEF longer
  <2>3. entry'.msgstr \o rest' = po[nth].msgstr
    BY <1>1, <1>4, <1>7, <2>1, <2>2
  <2>4. PoTypes'
    BY <1>11, <2>2 DEF PoTypes
  <2> QED  BY <1>1, <1>2, <1>9, <1>10, <1>13, <2>1, <2>2, <2>3, <2>4 DEF PoInv
<1> QED  BY <1>1, <1>12, <1>13 DEF PoInv, PoTypes

LEMMA PoSteps == PoInv /\ [Po!Next]_<<phase, poVars>> => PoInv'
<1> SUFFICES ASSUME PoInv, [Po!Next]_<<phase, poVars>> PROVE PoInv'
  OBVIOUS
<1>1. CASE Po!Blank
  BY <1>1, BlankKeeps
<1>2. CASE Po!Comment
  BY <1>2, CommentKeeps
<1>3. CASE Po!Flag
  BY <1>3, FlagKeeps
<1>4. CASE Po!Msgid
  BY <1>4, MsgidKeeps
<1>5. CASE Po!Msgstr
  BY <1>5, MsgstrKeeps
<1>6. CASE Po!MoreString
  BY <1>6, MoreKeeps
<1>7. CASE Po!NextEntry
  <2>1. /\ phase = "read" /\ place = "msgstr" /\ rest = <<>> /\ nth < Len(po)
        /\ nth' = nth + 1 /\ place' = "start"
        /\ UNCHANGED <<phase, po, rest, catalog, entry, field, fuzzy>>
    BY <1>7 DEF Po!NextEntry, Po!Reading, Po!EntryEnds
  <2>2. \A n : UpTo(n)' = UpTo(n)
    BY <2>1, UpToStays
  <2>3. Po!Flushed' = Po!Flushed /\ (Idle' <=> Idle)
    BY <2>1 DEF Po!Flushed, Idle
  <2>4. Po!Flushed = UpTo(nth) /\ (Idle \/ field = "msgstr")
    BY <2>1, IdleFlushed, WholeFlushed DEF PoInv
  <2>5. Len(po) \in Nat /\ nth \in 1 .. Len(po)
    BY LenProperties DEF PoInv, PoTypes
  <2>6. nth' \in 1 .. Len(po) /\ nth' - 1 = nth
    BY <2>1, <2>5
  <2>7. PoTypes'
    BY <2>1, <2>6 DEF PoInv, PoTypes
  <2> QED  BY <2>1, <2>2, <2>3, <2>4, <2>6, <2>7 DEF PoInv
<1>8. CASE Po!EndOfFile
  <2>1. /\ phase = "read" /\ place = "msgstr" /\ rest = <<>> /\ nth = Len(po)
        /\ phase' = "done" /\ catalog' = Po!Flushed
        /\ UNCHANGED <<po, nth, place, rest, entry, field, fuzzy>>
    BY <1>8 DEF Po!EndOfFile, Po!EntryEnds
  <2>2. \A n : UpTo(n)' = UpTo(n)
    BY <2>1, UpToStays
  <2>3. Po!Flushed = UpTo(nth)
    BY <2>1, IdleFlushed, WholeFlushed DEF PoInv
  <2>4. PoTypes'
    BY <2>1 DEF PoInv, PoTypes
  <2> QED  BY <2>1, <2>2, <2>3, <2>4 DEF PoInv
<1>9. CASE UNCHANGED <<phase, poVars>>
  <2>1. UNCHANGED <<phase, po, nth, place, rest, catalog, entry, field, fuzzy>>
    BY <1>9 DEF poVars
  <2>2. \A n : UpTo(n)' = UpTo(n)
    BY <2>1, UpToStays
  <2>3. Po!Flushed' = Po!Flushed /\ (Idle' <=> Idle) /\ (PoTypes' <=> PoTypes)
    BY <2>1 DEF Po!Flushed, Idle, PoTypes
  <2> QED  BY <2>1, <2>2, <2>3 DEF PoInv
<1> QED  BY <1>1, <1>2, <1>3, <1>4, <1>5, <1>6, <1>7, <1>8, <1>9 DEF Po!Next

LEMMA PoMeans == PoInv => Po!CatalogueIsRight
<1> SUFFICES ASSUME PoInv, phase = "done"
             PROVE  catalog = {[msgid |-> e.msgid, msgstr |-> e.msgstr] :
                                 e \in {f \in Po!ToSet(po) : f.msgid # <<>> /\ f.msgstr # <<>> /\ ~f.fuzzy}}
  BY DEF Po!CatalogueIsRight
<1>1. catalog = UpTo(Len(po))
  BY DEF PoInv
<1>2. Po!ToSet(po) = {po[i] : i \in 1 .. Len(po)}
  <2>1. DOMAIN po = 1 .. Len(po)
    BY LenProperties DEF PoInv, PoTypes
  <2> QED  BY <2>1 DEF Po!ToSet
<1>3. \A i \in 1 .. Len(po) : po[i].fuzzy \in BOOLEAN
  <2>1. \A i \in 1 .. Len(po) : po[i] \in [msgid : Ids, msgstr : Strings, fuzzy : BOOLEAN]
    BY ElementOfSeq DEF PoInv, PoTypes
  <2> QED  BY <2>1
<1>4. \A i \in 1 .. Len(po) :
        Translated(po[i]) <=> po[i].msgid # <<>> /\ po[i].msgstr # <<>> /\ ~po[i].fuzzy
  BY <1>3 DEF Translated
<1> QED  BY <1>1, <1>2, <1>4 DEF UpTo, Said

\* read_po: "untranslated and fuzzy entries left out", and each other one whole,
\* for any number of entries, any texts, and any layout of them in lines.
THEOREM CatalogueAlwaysRight == Spec => []CatalogueIsRight
<1> DEFINE Inv == part = "po" => PoInv
<1>1. Init => Inv
  BY PoStarts DEF Init
<1>2. Inv /\ [Next]_vars => Inv'
  <2> SUFFICES ASSUME PoInv, part = "po", part' = "po", [Next]_vars PROVE PoInv'
    BY DEF Next, vars
  <2>1. CASE Next
    BY <2>1, PoSteps DEF Next, Step
  <2>2. CASE UNCHANGED vars
    BY <2>2, PoSteps DEF vars
  <2> QED  BY <2>1, <2>2
<1>3. Inv => CatalogueIsRight
  BY PoMeans DEF CatalogueIsRight
<1> QED  BY <1>1, <1>2, <1>3, PTL DEF Spec

-----------------------------------------------------------------------------
(* HiveWriter's cells tile the hive as they are allocated, and the keys    *)
(* written so far are sound but for a parent, which only those are without *)
(* that no key lists yet: a parent patched into a key disturbs nothing     *)
(* that was said of another.                                               *)

\* Cells that were not written yet, as many as one call writes.
Bounded(cells) == Len(cells) \in 0 .. 3 /\ \A i \in 1 .. Len(cells) : cells[i].len \in Nat
Sized(cell, bytes) == [cell EXCEPT !.size = bytes]

\* The cells fill the hive up to its end, aligned and without a gap.
CellsTiled ==
  /\ top \in Nat /\ top % 8 = 0 /\ HBIN_HEADER_SIZE <= top
  /\ \A o \in DOMAIN buf :
       /\ o \in Nat /\ o % 8 = 0 /\ o < top
       /\ buf[o].size \in Nat /\ buf[o].len \in Nat /\ buf[o].size >= 4 + buf[o].len
       /\ o + buf[o].size \in DOMAIN buf \cup {top}
  /\ \A o \in DOMAIN buf \cup {top} :
       o = HBIN_HEADER_SIZE \/ \E p \in DOMAIN buf : p + buf[p].size = o

LEMMA CellSizeFits ==
  ASSUME NEW payload \in Nat
  PROVE  /\ Hive!CellSize(payload) \in Nat \ {0} /\ Hive!CellSize(payload) % 8 = 0
         /\ Hive!CellSize(payload) >= 4 + payload
BY DEF Hive!CellSize

LEMMA UpToFour ==
  ASSUME NEW n \in 0 .. 3, NEW i \in 1 .. n + 1
  PROVE  i = 1 \/ (i = 2 /\ n >= 1) \/ (i = 3 /\ n >= 2) \/ (i = 4 /\ n >= 3)
OBVIOUS

\* Where the cells go: one after the other.
LEMMA OffsetsAdd ==
  ASSUME NEW cells, Bounded(cells), top \in Nat
  PROVE  /\ Hive!Offsets(cells)[1] = top
         /\ \A i \in 1 .. Len(cells) :
              Hive!Offsets(cells)[i + 1] = Hive!Offsets(cells)[i] + Hive!CellSize(cells[i].len)
<1> DEFINE c(i) == Hive!CellSize(cells[i].len)
           g == [i \in 1 .. Len(cells) + 1 |->
                   IF i = 1 THEN top ELSE IF i = 2 THEN top + c(1)
                   ELSE IF i = 3 THEN (top + c(1)) + c(2) ELSE ((top + c(1)) + c(2)) + c(3)]
           Right(at) == at = [i \in 1 .. Len(cells) + 1 |-> IF i = 1 THEN top ELSE at[i - 1] + c(i - 1)]
<1>1. Len(cells) \in 0 .. 3
  BY DEF Bounded
<1>2. Right(g)
  <2>1. ASSUME NEW i \in 1 .. Len(cells) + 1
        PROVE  g[i] = IF i = 1 THEN top ELSE g[i - 1] + c(i - 1)
    <3>1. i = 1 \/ i = 2 \/ i = 3 \/ i = 4
      BY <1>1, UpToFour
    <3>2. CASE i = 1
      BY <3>2
    <3>3. CASE i = 2
      BY <1>1, <3>3
    <3>4. CASE i = 3
      BY <1>1, <3>4
    <3>5. CASE i = 4
      BY <1>1, <3>5
    <3> QED  BY <3>1, <3>2, <3>3, <3>4, <3>5
  <2> QED  BY <2>1
<1>3. Hive!Offsets(cells) = CHOOSE at : Right(at)
  BY DEF Hive!Offsets
<1> HIDE DEF g
<1>4. Right(Hive!Offsets(cells))
  BY <1>2, <1>3
<1> QED  BY <1>1, <1>4

\* So they grow, aligned.
LEMMA OffsetsGrow ==
  ASSUME NEW cells, Bounded(cells), top \in Nat, top % 8 = 0
  PROVE  LET at == Hive!Offsets(cells) IN
         /\ \A i \in 1 .. Len(cells) + 1 : at[i] \in Nat /\ at[i] % 8 = 0 /\ top <= at[i]
         /\ \A i, j \in 1 .. Len(cells) + 1 : i < j => at[i] < at[j]
<1> DEFINE at == Hive!Offsets(cells)
           n == Len(cells)
<1>1. n \in 0 .. 3
  BY DEF Bounded
<1>2. at[1] = top /\ \A i \in 1 .. n : at[i + 1] = at[i] + Hive!CellSize(cells[i].len)
  BY OffsetsAdd
<1>3. \A i \in 1 .. n : /\ Hive!CellSize(cells[i].len) \in Nat \ {0}
                        /\ Hive!CellSize(cells[i].len) % 8 = 0
  BY CellSizeFits DEF Bounded
<1> HIDE DEF at, n
<1>4. at[1] \in Nat /\ at[1] % 8 = 0 /\ top <= at[1]
  BY <1>2
<1>5. n >= 1 => at[2] \in Nat /\ at[2] % 8 = 0 /\ at[1] < at[2]
  <2> SUFFICES ASSUME n >= 1 PROVE at[2] \in Nat /\ at[2] % 8 = 0 /\ at[1] < at[2]
    OBVIOUS
  <2>1. 1 \in 1 .. n
    BY <1>1
  <2>2. at[1 + 1] = at[1] + Hive!CellSize(cells[1].len)
    BY <1>2, <2>1
  <2>3. Hive!CellSize(cells[1].len) \in Nat \ {0} /\ Hive!CellSize(cells[1].len) % 8 = 0
    BY <1>3, <2>1
  <2> QED  BY <1>4, <2>2, <2>3
<1>6. n >= 2 => at[3] \in Nat /\ at[3] % 8 = 0 /\ at[2] < at[3]
  <2> SUFFICES ASSUME n >= 2 PROVE at[3] \in Nat /\ at[3] % 8 = 0 /\ at[2] < at[3]
    OBVIOUS
  <2>1. 2 \in 1 .. n /\ n >= 1
    BY <1>1
  <2>2. at[2 + 1] = at[2] + Hive!CellSize(cells[2].len)
    BY <1>2, <2>1
  <2>3. Hive!CellSize(cells[2].len) \in Nat \ {0} /\ Hive!CellSize(cells[2].len) % 8 = 0
    BY <1>3, <2>1
  <2> QED  BY <1>5, <2>1, <2>2, <2>3
<1>7. n >= 3 => at[4] \in Nat /\ at[4] % 8 = 0 /\ at[3] < at[4]
  <2> SUFFICES ASSUME n >= 3 PROVE at[4] \in Nat /\ at[4] % 8 = 0 /\ at[3] < at[4]
    OBVIOUS
  <2>1. 3 \in 1 .. n /\ n >= 2
    BY <1>1
  <2>2. at[3 + 1] = at[3] + Hive!CellSize(cells[3].len)
    BY <1>2, <2>1
  <2>3. Hive!CellSize(cells[3].len) \in Nat \ {0} /\ Hive!CellSize(cells[3].len) % 8 = 0
    BY <1>3, <2>1
  <2> QED  BY <1>6, <2>1, <2>2, <2>3
<1>8. \A i \in 1 .. n + 1 : i = 1 \/ (i = 2 /\ n >= 1) \/ (i = 3 /\ n >= 2) \/ (i = 4 /\ n >= 3)
  BY <1>1, UpToFour
<1>9. n \in Nat /\ (n >= 3 => n >= 2) /\ (n >= 2 => n >= 1)
  BY <1>1
<1>10. \A i \in 1 .. n + 1 : at[i] \in Nat /\ at[i] % 8 = 0 /\ top <= at[i]
  BY <1>4, <1>5, <1>6, <1>7, <1>8, <1>9
<1>11. ASSUME NEW i \in 1 .. n + 1, NEW j \in 1 .. n + 1, i < j
       PROVE  at[i] < at[j]
  <2>1. CASE j = 2
    BY <1>4, <1>5, <1>8, <1>11, <2>1
  <2>2. CASE j = 3
    BY <1>4, <1>5, <1>6, <1>8, <1>9, <1>11, <2>2
  <2>3. CASE j = 4
    BY <1>4, <1>5, <1>6, <1>7, <1>8, <1>9, <1>11, <2>3
  <2> QED  BY <1>8, <1>11, <2>1, <2>2, <2>3
<1> QED  BY <1>10, <1>11 DEF at, n

\* alloc: the new cells stand behind the old ones, and what there was is patched.
LEMMA AllocLays ==
  ASSUME NEW cells, Bounded(cells), CellsTiled, NEW patched, Hive!Alloc(cells, patched)
  PROVE  LET at == Hive!Offsets(cells) IN
         /\ top' = at[Len(cells) + 1]
         /\ DOMAIN buf' = DOMAIN buf \cup {at[i] : i \in 1 .. Len(cells)}
         /\ \A o \in DOMAIN buf : buf'[o] = patched[o]
         /\ \A i \in 1 .. Len(cells) :
              /\ at[i] \notin DOMAIN buf
              /\ buf'[at[i]] = Sized(cells[i], Hive!CellSize(cells[i].len))
<1> DEFINE at == Hive!Offsets(cells)
           n == Len(cells)
           pick(o) == CHOOSE i \in 1 .. n : at[i] = o
<1>1. /\ buf' = [o \in DOMAIN buf \cup {at[i] : i \in 1 .. n} |->
                   IF o \in DOMAIN buf THEN patched[o]
                   ELSE Sized(cells[pick(o)], Hive!CellSize(cells[pick(o)].len))]
      /\ top' = at[n + 1]
  BY DEF Hive!Alloc, Sized
<1>2. n \in Nat
  BY DEF Bounded
<1>3. top \in Nat /\ top % 8 = 0
  BY DEF CellsTiled
<1>4. /\ \A i \in 1 .. n + 1 : at[i] \in Nat /\ top <= at[i]
      /\ \A i, j \in 1 .. n + 1 : i < j => at[i] < at[j]
  BY <1>3, OffsetsGrow
<1> HIDE DEF at, n
<1>5. ASSUME NEW i \in 1 .. n
      PROVE  at[i] \notin DOMAIN buf /\ pick(at[i]) = i
  <2>1. i \in 1 .. n + 1 /\ \A j \in 1 .. n : j \in 1 .. n + 1
    BY <1>2
  <2>2. at[i] \notin DOMAIN buf
    <3>1. at[i] \in Nat /\ top <= at[i]
      BY <1>4, <2>1
    <3>2. \A o \in DOMAIN buf : o \in Nat /\ o < top
      BY DEF CellsTiled
    <3> QED  BY <1>3, <3>1, <3>2
  <2>3. pick(at[i]) \in 1 .. n /\ at[pick(at[i])] = at[i]
    OBVIOUS
  <2>4. \A j \in 1 .. n : at[j] = at[i] => j = i
    <3> SUFFICES ASSUME NEW j \in 1 .. n, at[j] = at[i], j # i PROVE FALSE
      OBVIOUS
    <3>1. j < i \/ i < j
      BY <1>2
    <3>2. at[i] \in Nat
      BY <1>4, <2>1
    <3> QED  BY <1>4, <2>1, <3>1, <3>2
  <2> QED  BY <2>2, <2>3, <2>4
<1>6. \A i \in 1 .. n : buf'[at[i]] = Sized(cells[i], Hive!CellSize(cells[i].len))
  BY <1>1, <1>5
<1>7. DOMAIN buf' = DOMAIN buf \cup {at[i] : i \in 1 .. n} /\ \A o \in DOMAIN buf : buf'[o] = patched[o]
  BY <1>1
<1> QED  BY <1>1, <1>5, <1>6, <1>7 DEF at, n

\* Whatever is written, the hive stays tiled.
LEMMA AllocTiles ==
  ASSUME NEW cells, Bounded(cells), Len(cells) # 0, CellsTiled, NEW patched, Hive!Alloc(cells, patched),
         \A o \in DOMAIN buf : patched[o].size = buf[o].size /\ patched[o].len = buf[o].len,
         \A i \in 1 .. Len(cells), size_ \in Nat :
           Sized(cells[i], size_).size = size_ /\ Sized(cells[i], size_).len = cells[i].len
  PROVE  CellsTiled'
<1> DEFINE at == Hive!Offsets(cells)
           n == Len(cells)
           c(i) == Hive!CellSize(cells[i].len)
<1>1. n \in Nat /\ n # 0 /\ 1 \in 1 .. n
  BY DEF Bounded
<1>2. top \in Nat /\ top % 8 = 0 /\ HBIN_HEADER_SIZE \in Nat /\ HBIN_HEADER_SIZE <= top
  BY PartsAssumption DEF CellsTiled, PartsAssumption
<1>3. at[1] = top /\ \A i \in 1 .. n : at[i + 1] = at[i] + c(i)
  BY <1>2, OffsetsAdd
<1>4. /\ \A i \in 1 .. n + 1 : at[i] \in Nat /\ at[i] % 8 = 0 /\ top <= at[i]
      /\ \A i, j \in 1 .. n + 1 : i < j => at[i] < at[j]
  BY <1>2, OffsetsGrow
<1>5. /\ top' = at[n + 1] /\ DOMAIN buf' = DOMAIN buf \cup {at[i] : i \in 1 .. n}
      /\ \A o \in DOMAIN buf : buf'[o] = patched[o]
      /\ \A i \in 1 .. n : buf'[at[i]] = Sized(cells[i], c(i))
  <2>1. /\ top' = at[n + 1]
        /\ DOMAIN buf' = DOMAIN buf \cup {at[i] : i \in 1 .. n}
        /\ \A o \in DOMAIN buf : buf'[o] = patched[o]
        /\ \A i \in 1 .. n : at[i] \notin DOMAIN buf /\ buf'[at[i]] = Sized(cells[i], c(i))
    BY AllocLays, Zenon
  <2> QED  BY <2>1, Zenon
<1>6. \A i \in 1 .. n : cells[i].len \in Nat /\ c(i) \in Nat /\ c(i) >= 4 + cells[i].len
  BY CellSizeFits DEF Bounded
<1>7. \A i \in 1 .. n : buf'[at[i]].size = c(i) /\ buf'[at[i]].len = cells[i].len
  BY <1>5, <1>6
<1>8. \A o \in DOMAIN buf : buf'[o].size = buf[o].size /\ buf'[o].len = buf[o].len
  BY <1>5
<1> HIDE DEF at, n, c
<1>9. /\ n + 1 \in 1 .. n + 1 /\ \A i \in 1 .. n : i \in 1 .. n + 1 /\ i < n + 1
      /\ \A i \in 1 .. n + 1 : i = 1 \/ (i - 1 \in 1 .. n /\ (i - 1) + 1 = i)
      /\ \A i \in 1 .. n : i + 1 \in 1 .. n \/ i + 1 = n + 1
  BY <1>1
<1>10. top' \in Nat /\ top' % 8 = 0 /\ top < top' /\ HBIN_HEADER_SIZE <= top'
  <2>1. top' \in Nat /\ top' % 8 = 0
    BY <1>4, <1>5, <1>9
  <2>2. at[1] < at[n + 1]
    BY <1>1, <1>4, <1>9
  <2>3. top < top'
    BY <1>3, <1>5, <2>2
  <2>4. HBIN_HEADER_SIZE <= top'
    <3>1. top \in Nat /\ HBIN_HEADER_SIZE \in Nat /\ HBIN_HEADER_SIZE <= top /\ top' \in Nat
      BY <1>2, <2>1
    <3> QED  BY <2>3, <3>1
  <2> QED  BY <2>1, <2>3, <2>4
<1>11. ASSUME NEW o \in DOMAIN buf'
       PROVE  /\ o \in Nat /\ o % 8 = 0 /\ o < top'
              /\ buf'[o].size \in Nat /\ buf'[o].len \in Nat /\ buf'[o].size >= 4 + buf'[o].len
              /\ o + buf'[o].size \in DOMAIN buf' \cup {top'}
  <2>1. CASE o \in DOMAIN buf
    <3>1. /\ o \in Nat /\ o % 8 = 0 /\ o < top
          /\ buf[o].size \in Nat /\ buf[o].len \in Nat /\ buf[o].size >= 4 + buf[o].len
          /\ o + buf[o].size \in DOMAIN buf \cup {top}
      BY <2>1 DEF CellsTiled
    <3>2. top \in DOMAIN buf'
      BY <1>1, <1>3, <1>5
    <3>3. o + buf'[o].size \in DOMAIN buf'
      BY <1>5, <1>8, <2>1, <3>1, <3>2
    <3>4. o < top'
      BY <1>2, <1>10, <3>1
    <3> QED  BY <1>8, <2>1, <3>1, <3>3, <3>4
  <2>2. CASE o \notin DOMAIN buf
    <3>1. PICK i \in 1 .. n : o = at[i]
      BY <1>5, <2>2
    <3>2. i \in 1 .. n + 1 /\ at[i] < at[n + 1] /\ at[i] \in Nat /\ at[i] % 8 = 0
      BY <1>4, <1>9
    <3>3. at[i + 1] \in DOMAIN buf' \cup {top'}
      BY <1>5, <1>9
    <3>4. o + buf'[o].size = at[i + 1]
      BY <1>3, <1>7, <3>1
    <3>5. buf'[o].size \in Nat /\ buf'[o].len \in Nat /\ buf'[o].size >= 4 + buf'[o].len
      BY <1>6, <1>7, <3>1
    <3> QED  BY <1>5, <3>1, <3>2, <3>3, <3>4, <3>5
  <2> QED  BY <2>1, <2>2
<1>12. ASSUME NEW o \in DOMAIN buf' \cup {top'}, o # HBIN_HEADER_SIZE
       PROVE  \E p \in DOMAIN buf' : p + buf'[p].size = o
  <2>1. CASE o \in DOMAIN buf \cup {top}
    <3>1. PICK p \in DOMAIN buf : p + buf[p].size = o
      BY <1>12, <2>1 DEF CellsTiled
    <3>2. p \in DOMAIN buf' /\ p + buf'[p].size = o
      BY <1>5, <1>8, <3>1
    <3> QED  BY <3>2
  <2>2. CASE o \notin DOMAIN buf \cup {top}
    <3>1. PICK i \in 1 .. n + 1 : o = at[i]
      BY <1>5, <1>9, <2>2
    <3>2. i - 1 \in 1 .. n /\ (i - 1) + 1 = i
      BY <1>3, <1>9, <2>2, <3>1
    <3>3. at[i - 1] \in DOMAIN buf' /\ buf'[at[i - 1]].size = c(i - 1)
      BY <1>5, <1>7, <3>2
    <3>4. at[i - 1] + c(i - 1) = at[i]
      <4>1. at[(i - 1) + 1] = at[i - 1] + c(i - 1)
        BY <1>3, <3>2
      <4> QED  BY <3>2, <4>1
    <3> QED  BY <3>1, <3>3, <3>4
  <2> QED  BY <2>1, <2>2
<1> QED  BY <1>10, <1>11, <1>12 DEF CellsTiled

\* A key as it is written.
KeyCells ==
  [kind : {"nk"}, len : Nat, size : Nat, name : KeyNames, parent : Nat \cup {Nowhere},
   security : Nat, nsubkeys : Nat, nvalues : Nat,
   subkeys : Nat \cup {Nowhere}, values : Nat \cup {Nowhere}]

\* Its parent has a list, and it is in it.
Linked(k) ==
  LET p == buf[k].parent IN
  /\ p \in Hive!Cells("nk") /\ buf[p].subkeys \in Hive!Cells("lf")
  /\ Hive!Contains(buf[buf[p].subkeys].entries, k)

KeySound(k) ==
  /\ buf[k] \in KeyCells /\ buf[k].security = HBIN_HEADER_SIZE
  /\ Hive!ListsSubkeys(k) /\ Hive!ListsValues(k)
ValueSound(v) ==
  buf[v].data \in Hive!Cells("data") /\ buf[buf[v].data].len = buf[v].data_len

\* Only keys that no key lists yet are without a parent.
HiveInv ==
  /\ phase \in {"new", "build", "done"} /\ Hive!HiveIsSound
  /\ phase # "done" => CellsTiled
  /\ phase = "new" => DOMAIN buf = {} /\ top = HBIN_HEADER_SIZE
  /\ phase # "new" => HBIN_HEADER_SIZE \in Hive!Cells("sk")
  /\ orphans \subseteq Hive!Cells("nk") /\ IsFiniteSet(orphans)
  /\ unused_values \subseteq Hive!Cells("vk") /\ IsFiniteSet(unused_values)
  /\ \A k \in Hive!Cells("nk") :
       KeySound(k) /\ IF k \in orphans THEN buf[k].parent = Nowhere ELSE Linked(k)
  /\ \A v \in Hive!Cells("vk") : ValueSound(v)

\* A parent patched into a key changes nothing else of it.
LEMMA ParentPatched ==
  ASSUME NEW key \in KeyCells, NEW off \in Nat, NEW new, new = [key EXCEPT !.parent = off]
  PROVE  /\ new \in KeyCells /\ new.parent = off /\ new.kind = key.kind /\ new.len = key.len
         /\ new.size = key.size /\ new.name = key.name /\ new.security = key.security
         /\ new.nsubkeys = key.nsubkeys /\ new.nvalues = key.nvalues
         /\ new.subkeys = key.subkeys /\ new.values = key.values
BY DEF KeyCells

\* What there was stays as it was but for the parents of `taken`.
Patched(taken, off) ==
  \A o \in DOMAIN buf :
    o \in DOMAIN buf' /\ buf'[o] = IF o \in taken THEN [buf[o] EXCEPT !.parent = off] ELSE buf[o]

\* The cells as the invariant has them.
CellsSound ==
  /\ \A o \in DOMAIN buf : o \in Nat
  /\ orphans \subseteq Hive!Cells("nk")
  /\ \A k \in Hive!Cells("nk") :
       KeySound(k) /\ IF k \in orphans THEN buf[k].parent = Nowhere ELSE Linked(k)
  /\ \A v \in Hive!Cells("vk") : ValueSound(v)

\* The cells that stay, and what is said of them.
LEMMA CellsStay ==
  ASSUME CellsSound, NEW taken, taken \subseteq orphans, NEW off \in Nat, Patched(taken, off)
  PROVE  /\ \A o \in DOMAIN buf : /\ buf'[o].kind = buf[o].kind /\ buf'[o].size = buf[o].size
                                 /\ buf'[o].len = buf[o].len
         /\ \A kind_ : Hive!Cells(kind_) \subseteq Hive!Cells(kind_)'
         /\ \A k \in Hive!Cells("nk") :
              /\ buf'[k] \in KeyCells /\ buf'[k].name = buf[k].name
              /\ buf'[k].security = buf[k].security /\ buf'[k].subkeys = buf[k].subkeys
              /\ buf'[k].parent = IF k \in taken THEN off ELSE buf[k].parent
         /\ \A o \in DOMAIN buf : buf[o].kind # "nk" => buf'[o] = buf[o]
<1>1. \A o \in taken : o \in Hive!Cells("nk") /\ o \in DOMAIN buf /\ buf[o] \in KeyCells
  BY DEF CellsSound, KeySound, Hive!Cells
<1>2. ASSUME NEW o \in taken
      PROVE  /\ buf'[o] \in KeyCells /\ buf'[o].parent = off /\ buf'[o].kind = buf[o].kind
             /\ buf'[o].len = buf[o].len /\ buf'[o].size = buf[o].size
             /\ buf'[o].name = buf[o].name /\ buf'[o].security = buf[o].security
             /\ buf'[o].subkeys = buf[o].subkeys
  <2>1. buf'[o] = [buf[o] EXCEPT !.parent = off]
    BY <1>1 DEF Patched
  <2> QED  BY <1>1, <2>1, ParentPatched
<1>3. \A o \in DOMAIN buf : o \in DOMAIN buf' /\ (o \notin taken => buf'[o] = buf[o])
  BY DEF Patched
<1>4. \A o \in DOMAIN buf : /\ buf'[o].kind = buf[o].kind /\ buf'[o].size = buf[o].size
                           /\ buf'[o].len = buf[o].len
  BY <1>2, <1>3
<1>5. \A kind_ : Hive!Cells(kind_) \subseteq Hive!Cells(kind_)'
  BY <1>3, <1>4 DEF Hive!Cells
<1>6. \A k \in Hive!Cells("nk") : k \in DOMAIN buf /\ buf[k] \in KeyCells
  BY DEF CellsSound, KeySound, Hive!Cells
<1>7. \A k \in Hive!Cells("nk") :
        /\ buf'[k] \in KeyCells /\ buf'[k].name = buf[k].name
        /\ buf'[k].security = buf[k].security /\ buf'[k].subkeys = buf[k].subkeys
        /\ buf'[k].parent = IF k \in taken THEN off ELSE buf[k].parent
  BY <1>2, <1>3, <1>6
<1>8. \A o \in DOMAIN buf : buf[o].kind # "nk" => buf'[o] = buf[o]
  BY <1>1, <1>3 DEF Hive!Cells
<1> QED  BY <1>4, <1>5, <1>7, <1>8

LEMMA OldStaysSound ==
  ASSUME CellsSound, NEW taken, taken \subseteq orphans, NEW off \in Nat, Patched(taken, off)
  PROVE  /\ \A k \in Hive!Cells("nk") : KeySound(k)' /\ (k \notin orphans => Linked(k)')
         /\ \A v \in Hive!Cells("vk") : ValueSound(v)'
<1>1. /\ \A kind_ : Hive!Cells(kind_) \subseteq Hive!Cells(kind_)'
      /\ \A k \in Hive!Cells("nk") :
           /\ buf'[k] \in KeyCells /\ buf'[k].name = buf[k].name
           /\ buf'[k].security = buf[k].security /\ buf'[k].subkeys = buf[k].subkeys
           /\ buf'[k].parent = IF k \in taken THEN off ELSE buf[k].parent
      /\ \A o \in DOMAIN buf : buf[o].kind # "nk" => buf'[o] = buf[o]
  BY CellsStay
<1>2. \A o \in DOMAIN buf : o \in Nat
  BY DEF CellsSound
<1>3. Nowhere \notin Nat
  BY PartsAssumption DEF PartsAssumption
<1>4. ASSUME NEW k \in Hive!Cells("nk")
      PROVE  KeySound(k)'
  <2>1. buf[k].security = HBIN_HEADER_SIZE /\ Hive!ListsSubkeys(k) /\ Hive!ListsValues(k) /\ k \in Nat
    BY <1>2 DEF CellsSound, KeySound, Hive!Cells
  <2>2. /\ buf'[k].nsubkeys = buf[k].nsubkeys /\ buf'[k].nvalues = buf[k].nvalues
        /\ buf'[k].values = buf[k].values
    <3>1. CASE k \in taken
      <4>1. buf'[k] = [buf[k] EXCEPT !.parent = off] /\ buf[k] \in KeyCells
        BY <3>1 DEF Patched, Hive!Cells, CellsSound, KeySound
      <4> QED  BY <4>1, ParentPatched
    <3>2. CASE k \notin taken
      BY <3>2 DEF Patched, Hive!Cells
    <3> QED  BY <3>1, <3>2
  <2>3. Hive!ListsSubkeys(k)'
    <3>1. CASE buf[k].subkeys = Nowhere
      BY <1>1, <2>1, <2>2, <3>1 DEF Hive!ListsSubkeys
    <3>2. CASE buf[k].subkeys # Nowhere
      <4> DEFINE l == buf[k].subkeys
                 list == buf[l].entries
      <4>1. /\ l \in Hive!Cells("lf") /\ Len(list) = buf[k].nsubkeys
            /\ \A i \in 1 .. Len(list) : list[i] \in Hive!Cells("nk") /\ buf[list[i]].parent = k
            /\ \A i, j \in 1 .. Len(list) : i < j => buf[list[i]].name < buf[list[j]].name
        BY <2>1, <3>2 DEF Hive!ListsSubkeys
      <4>2. buf'[l] = buf[l] /\ l \in Hive!Cells("lf")' /\ buf'[k].subkeys = l /\ l # Nowhere
        BY <1>1, <3>2, <4>1 DEF Hive!Cells
      <4>3. buf'[l].entries = list
        BY <4>2
      <4> HIDE DEF l, list
      <4>4. ASSUME NEW i \in 1 .. Len(list)
            PROVE  /\ list[i] \in Hive!Cells("nk")' /\ buf'[list[i]].parent = k
                   /\ buf'[list[i]].name = buf[list[i]].name
        <5>1. list[i] \in Hive!Cells("nk") /\ buf[list[i]].parent = k
          BY <4>1
        <5>2. list[i] \notin orphans
          BY <1>3, <2>1, <5>1 DEF CellsSound
        <5> QED  BY <1>1, <5>1, <5>2
      <4>5. \A i, j \in 1 .. Len(list) : i < j => buf'[list[i]].name < buf'[list[j]].name
        BY <4>1, <4>4
      <4> QED  BY <2>2, <4>1, <4>2, <4>3, <4>4, <4>5 DEF Hive!ListsSubkeys
    <3> QED  BY <3>1, <3>2
  <2>4. Hive!ListsValues(k)'
    <3>1. CASE buf[k].values = Nowhere
      BY <2>1, <2>2, <3>1 DEF Hive!ListsValues
    <3>2. CASE buf[k].values # Nowhere
      <4> DEFINE l == buf[k].values
                 list == buf[l].entries
      <4>1. /\ l \in Hive!Cells("list") /\ Len(list) = buf[k].nvalues
            /\ \A i \in 1 .. Len(list) : list[i] \in Hive!Cells("vk")
        BY <2>1, <3>2 DEF Hive!ListsValues
      <4>2. buf'[l] = buf[l] /\ l \in Hive!Cells("list")' /\ buf'[k].values = l /\ l # Nowhere
        BY <1>1, <2>2, <3>2, <4>1 DEF Hive!Cells
      <4>3. buf'[l].entries = list
        BY <4>2
      <4> HIDE DEF l, list
      <4>4. \A i \in 1 .. Len(list) : list[i] \in Hive!Cells("vk")'
        BY <1>1, <4>1
      <4> QED  BY <2>2, <4>1, <4>2, <4>3, <4>4 DEF Hive!ListsValues
    <3> QED  BY <3>1, <3>2
  <2> QED  BY <1>1, <2>1, <2>3, <2>4 DEF KeySound
<1>5. ASSUME NEW k \in Hive!Cells("nk"), k \notin orphans
      PROVE  Linked(k)'
  <2> DEFINE p == buf[k].parent
             l == buf[p].subkeys
  <2>1. p \in Hive!Cells("nk") /\ l \in Hive!Cells("lf") /\ Hive!Contains(buf[l].entries, k)
    BY <1>5 DEF CellsSound, Linked
  <2>2. buf'[k].parent = p
    BY <1>1, <1>5
  <2>3. buf'[p].subkeys = l /\ p \in Hive!Cells("nk")'
    BY <1>1, <2>1
  <2>4. buf'[l] = buf[l] /\ l \in Hive!Cells("lf")'
    BY <1>1, <2>1 DEF Hive!Cells
  <2> HIDE DEF p, l
  <2> QED  BY <2>1, <2>2, <2>3, <2>4 DEF Linked, Hive!Contains
<1>6. ASSUME NEW v \in Hive!Cells("vk")
      PROVE  ValueSound(v)'
  <2>1. buf[v].data \in Hive!Cells("data") /\ buf[buf[v].data].len = buf[v].data_len
    BY DEF CellsSound, ValueSound
  <2>2. buf'[v] = buf[v] /\ buf'[buf[v].data] = buf[buf[v].data]
    BY <1>1, <2>1 DEF Hive!Cells
  <2> QED  BY <1>1, <2>1, <2>2 DEF ValueSound
<1> QED  BY <1>4, <1>5, <1>6

LEMMA DivMod ==
  ASSUME NEW a \in Int, NEW b \in Nat \ {0}
  PROVE  /\ a \div b \in Int /\ a % b \in Nat /\ a % b < b
         /\ a = b * (a \div b) + (a % b)
OBVIOUS

LEMMA Multiple ==
  ASSUME NEW b \in Nat \ {0}, NEW k \in Int
  PROVE  (b * k) % b = 0
<1> DEFINE q == (b * k) \div b
           r == (b * k) % b
<1>1. b * k \in Int
  OBVIOUS
<1>2. q \in Int /\ r \in Nat /\ r < b /\ b * k = b * q + r
  BY <1>1, DivMod
<1> HIDE DEF q, r
<1>3. r = b * (k - q)
  BY <1>2
<1>4. k - q >= 1 => b * (k - q) >= b
  BY <1>2
<1>5. k - q <= -1 => b * (k - q) <= -b
  BY <1>2
<1>6. k - q = 0
  BY <1>2, <1>3, <1>4, <1>5
<1>7. r = 0
  BY <1>2, <1>3, <1>6
<1> QED BY <1>7 DEF r

LEMMA PadFits ==
  ASSUME NEW t \in Nat, t % 8 = 0, NEW b \in Nat \ {0}, b % 8 = 0, NEW pad, pad = (-t) % b
  PROVE  pad \in Nat /\ pad % 8 = 0 /\ (t + pad) % b = 0
<1> DEFINE q == (-t) \div b
<1>1. q \in Int /\ pad \in Nat /\ -t = b * q + pad
  BY DivMod
<1> HIDE DEF q
<1>2. t + pad = b * (-q)
  BY <1>1
<1>3. (t + pad) % b = 0
  <2>1. -q \in Int
    BY <1>1
  <2>2. (b * (-q)) % b = 0
    BY <2>1, Multiple
  <2> QED BY <1>2, <2>2
<1>4. PICK u \in Nat, v \in Nat : t = 8 * u /\ b = 8 * v
  <2>1. t = 8 * (t \div 8) /\ b = 8 * (b \div 8) /\ t \div 8 \in Nat /\ b \div 8 \in Nat
    OBVIOUS
  <2> QED BY <2>1
<1>5. v * q \in Int /\ b * q = 8 * (v * q)
  BY <1>1, <1>4
<1> DEFINE w == v * q
<1>6. w \in Int /\ pad = 8 * (-u - w)
  BY <1>1, <1>4, <1>5
<1> HIDE DEF w
<1>7. pad % 8 = 0
  BY <1>6
<1> QED BY <1>1, <1>3, <1>7

LEMMA HiveCellsSound == HiveInv /\ phase # "done" => CellsSound
BY DEF HiveInv, CellsTiled, CellsSound

LEMMA SecurityKeeps == HiveInv /\ Hive!Security => HiveInv'
<1> SUFFICES ASSUME HiveInv, Hive!Security PROVE HiveInv'
  OBVIOUS
<1> DEFINE sk == [kind |-> "sk", len |-> 120, size |-> 0]
           cells == <<sk>>
<1>1. /\ phase = "new" /\ phase' = "build" /\ Hive!Alloc(cells, buf)
      /\ UNCHANGED <<orphans, unused_values, root>>
  BY DEF Hive!Security
<1>2. CellsTiled /\ DOMAIN buf = {} /\ top = HBIN_HEADER_SIZE
  BY <1>1 DEF HiveInv
<1>3. sk.len = 120 /\ \A s : Sized(sk, s).kind = "sk" /\ Sized(sk, s).len = 120 /\ Sized(sk, s).size = s
  BY DEF Sized
<1>4. Len(cells) = 1 /\ cells[1] = sk
  OBVIOUS
<1>5. Bounded(cells)
  BY <1>4 DEF Bounded
<1> HIDE DEF cells, sk
<1>6. CellsTiled'
  <2>1. \A i \in 1 .. Len(cells), s \in Nat :
          Sized(cells[i], s).size = s /\ Sized(cells[i], s).len = cells[i].len
    <3>1. \A i \in 1 .. Len(cells) : cells[i] = sk
      BY <1>4
    <3>2. \A s : Sized(sk, s).size = s /\ Sized(sk, s).len = sk.len
      BY <1>3
    <3> QED  BY <3>1, <3>2
  <2>2. Len(cells) # 0
    BY <1>4
  <2> QED  BY <1>1, <1>2, <1>5, <2>1, <2>2, AllocTiles
<1>7. DOMAIN buf' = {HBIN_HEADER_SIZE} /\ buf'[HBIN_HEADER_SIZE].kind = "sk"
  <2>1. Hive!Offsets(cells)[1] = HBIN_HEADER_SIZE
    BY <1>2, <1>5, OffsetsAdd DEF CellsTiled
  <2>2. /\ DOMAIN buf' = DOMAIN buf \cup {Hive!Offsets(cells)[i] : i \in 1 .. 1}
        /\ \A i \in 1 .. 1 :
             buf'[Hive!Offsets(cells)[i]] = Sized(cells[i], Hive!CellSize(cells[i].len))
    BY <1>1, <1>2, <1>4, <1>5, AllocLays
  <2>3. 1 \in 1 .. 1 /\ \A i \in 1 .. 1 : i = 1
    OBVIOUS
  <2>4. DOMAIN buf' = {HBIN_HEADER_SIZE}
    BY <1>2, <2>1, <2>2, <2>3
  <2>5. buf'[HBIN_HEADER_SIZE] = Sized(sk, Hive!CellSize(sk.len))
    BY <1>4, <2>1, <2>2, <2>3
  <2> QED  BY <1>3, <2>4, <2>5
<1>8. orphans = {} /\ unused_values = {}
  BY <1>2 DEF HiveInv, Hive!Cells
<1>9. HBIN_HEADER_SIZE \in Hive!Cells("sk")' /\ Hive!Cells("nk")' = {} /\ Hive!Cells("vk")' = {}
  BY <1>7 DEF Hive!Cells
<1>10. IsFiniteSet(orphans') /\ IsFiniteSet(unused_values')
  BY <1>1 DEF HiveInv
<1> QED  BY <1>1, <1>6, <1>8, <1>9, <1>10 DEF HiveInv, Hive!HiveIsSound

LEMMA ValueKeeps ==
  ASSUME HiveInv, NEW name \in KeyNames, NEW size_ \in DataSizes, Hive!Value(name, size_)
  PROVE  HiveInv'
<1> DEFINE len_ == 20 + NameLen(name)
           vk == [kind |-> "vk", len |-> len_, size |-> 0, name |-> name,
                  data |-> top + Hive!CellSize(len_), data_len |-> size_]
           data == [kind |-> "data", len |-> size_, size |-> 0]
           cells == <<vk, data>>
           at == Hive!Offsets(cells)
<1>1. /\ phase = "build" /\ phase' = "build" /\ Hive!Alloc(cells, buf)
      /\ unused_values' = unused_values \cup {top} /\ UNCHANGED <<orphans, root>>
  BY DEF Hive!Value
<1>2. CellsTiled /\ CellsSound /\ top \in Nat
  BY <1>1, HiveCellsSound DEF HiveInv, CellsTiled
<1>3. len_ \in Nat /\ size_ \in Nat
  <2>1. NameLen(name) \in Nat /\ size_ \in Nat
    BY PartsAssumption DEF PartsAssumption
  <2> QED  BY <2>1
<1>4. /\ vk.len = len_ /\ data.len = size_
      /\ \A s : /\ Sized(vk, s).kind = "vk" /\ Sized(vk, s).len = len_ /\ Sized(vk, s).size = s
                /\ Sized(vk, s).data = top + Hive!CellSize(len_) /\ Sized(vk, s).data_len = size_
      /\ \A s : /\ Sized(data, s).kind = "data" /\ Sized(data, s).len = size_
                /\ Sized(data, s).size = s
  BY DEF Sized
<1>5. Len(cells) = 2 /\ cells[1] = vk /\ cells[2] = data
  OBVIOUS
<1> HIDE DEF cells, len_, vk, data
<1>6. \A i \in 1 .. 2 : i = 1 \/ i = 2
  OBVIOUS
<1>7. Bounded(cells)
  BY <1>3, <1>4, <1>5, <1>6 DEF Bounded
<1>8. CellsTiled'
  <2>1. \A i \in 1 .. Len(cells), s \in Nat :
          Sized(cells[i], s).size = s /\ Sized(cells[i], s).len = cells[i].len
    BY <1>4, <1>5, <1>6
  <2>2. Len(cells) # 0
    BY <1>5
  <2> QED  BY <1>1, <1>2, <1>7, <2>1, <2>2, AllocTiles
<1>9. at[1] = top /\ at[2] = top + Hive!CellSize(len_)
  <2>1. 1 \in 1 .. Len(cells)
    BY <1>5
  <2>2. at[1] = top /\ at[1 + 1] = at[1] + Hive!CellSize(cells[1].len)
    BY <1>2, <1>7, <2>1, OffsetsAdd
  <2> QED  BY <1>4, <1>5, <2>2
<1> HIDE DEF at
<1>10. /\ DOMAIN buf' = DOMAIN buf \cup {at[1], at[2]}
       /\ \A o \in DOMAIN buf : buf'[o] = buf[o]
       /\ at[1] \notin DOMAIN buf /\ at[2] \notin DOMAIN buf
       /\ buf'[at[1]] = Sized(vk, Hive!CellSize(len_))
       /\ buf'[at[2]] = Sized(data, Hive!CellSize(size_))
  <2>1. /\ DOMAIN buf' = DOMAIN buf \cup {at[i] : i \in 1 .. 2}
        /\ \A o \in DOMAIN buf : buf'[o] = buf[o]
        /\ \A i \in 1 .. 2 :
             at[i] \notin DOMAIN buf /\ buf'[at[i]] = Sized(cells[i], Hive!CellSize(cells[i].len))
    <3>1. /\ DOMAIN buf' = DOMAIN buf \cup {at[i] : i \in 1 .. Len(cells)}
          /\ \A o \in DOMAIN buf : buf'[o] = buf[o]
          /\ \A i \in 1 .. Len(cells) :
               at[i] \notin DOMAIN buf /\ buf'[at[i]] = Sized(cells[i], Hive!CellSize(cells[i].len))
      BY <1>1, <1>2, <1>7, AllocLays DEF at
    <3> QED  BY <1>5, <3>1
  <2>2. {at[i] : i \in 1 .. 2} = {at[1], at[2]}
    BY <1>6
  <2>3. 1 \in 1 .. 2 /\ 2 \in 1 .. 2
    OBVIOUS
  <2> QED  BY <1>4, <1>5, <2>1, <2>2, <2>3
<1>11. /\ buf'[at[1]].kind = "vk" /\ buf'[at[1]].data = at[2] /\ buf'[at[1]].data_len = size_
       /\ buf'[at[2]].kind = "data" /\ buf'[at[2]].len = size_
  BY <1>4, <1>9, <1>10
<1>12. Patched({}, 0)
  BY <1>10 DEF Patched
<1>13. /\ \A k \in Hive!Cells("nk") : KeySound(k)' /\ (k \notin orphans => Linked(k)')
       /\ \A v \in Hive!Cells("vk") : ValueSound(v)'
  BY <1>2, <1>12, OldStaysSound
<1>14. /\ \A kind_ : Hive!Cells(kind_) \subseteq Hive!Cells(kind_)'
       /\ Hive!Cells("nk")' = Hive!Cells("nk") /\ Hive!Cells("vk")' = Hive!Cells("vk") \cup {top}
       /\ at[2] \in Hive!Cells("data")'
  <2>1. \A kind_ : Hive!Cells(kind_) \subseteq Hive!Cells(kind_)'
    BY <1>10 DEF Hive!Cells
  <2>2. at[2] \in Hive!Cells("data")'
    BY <1>10, <1>11 DEF Hive!Cells
  <2>3. Hive!Cells("nk")' = Hive!Cells("nk")
    BY <1>10, <1>11 DEF Hive!Cells
  <2>4. Hive!Cells("vk")' = Hive!Cells("vk") \cup {top}
    BY <1>9, <1>10, <1>11 DEF Hive!Cells
  <2> QED  BY <2>1, <2>2, <2>3, <2>4
<1>15. \A v : v = top => ValueSound(v)'
  BY <1>9, <1>11, <1>14 DEF ValueSound
<1>16. \A k \in orphans : buf'[k].parent = Nowhere
  BY <1>2, <1>10 DEF CellsSound, Hive!Cells
<1>17. IsFiniteSet(orphans') /\ IsFiniteSet(unused_values')
  BY <1>1, FS_AddElement DEF HiveInv
<1>18. /\ orphans' \subseteq Hive!Cells("nk")' /\ unused_values' \subseteq Hive!Cells("vk")'
       /\ HBIN_HEADER_SIZE \in Hive!Cells("sk")'
  BY <1>1, <1>14 DEF HiveInv
<1>19. Hive!HiveIsSound'
  BY <1>1 DEF Hive!HiveIsSound
<1>20. \A k \in Hive!Cells("nk")' :
         KeySound(k)' /\ IF k \in orphans' THEN buf'[k].parent = Nowhere ELSE Linked(k)'
  BY <1>1, <1>13, <1>14, <1>16
<1>21. \A v \in Hive!Cells("vk")' : ValueSound(v)'
  <2> SUFFICES ASSUME NEW v \in Hive!Cells("vk")' PROVE ValueSound(v)'
    OBVIOUS
  <2>1. v \in Hive!Cells("vk") \/ v = top
    BY <1>14
  <2> QED  BY <1>13, <1>15, <2>1
<1> QED  BY <1>1, <1>8, <1>17, <1>18, <1>19, <1>20, <1>21 DEF HiveInv

\* A list of a set has each of its elements.
LEMMA SeqsCover ==
  ASSUME NEW S, IsFiniteSet(S), NEW s \in Hive!SetToSeqs(S)
  PROVE  /\ s \in Seq(S) /\ Len(s) \in Nat /\ (S = {} => Len(s) = 0)
         /\ \A i \in 1 .. Len(s) : s[i] \in S
         /\ \A x \in S : Hive!Contains(s, x)
<1> DEFINE n == Cardinality(S)
<1>1. n \in Nat /\ (S = {} => n = 0)
  BY FS_CardinalityType, FS_EmptySet
<1>2. s \in [1 .. n -> S] /\ \A i, j \in 1 .. n : i # j => s[i] # s[j]
  <2>1. Hive!Cardinality(S) = n
    BY Zenon DEF Hive!Cardinality, Cardinality
  <2> QED  BY <2>1 DEF Hive!SetToSeqs
<1> HIDE DEF n
<1>3. s \in Seq(S) /\ Len(s) = n
  BY <1>1, <1>2
<1>4. ASSUME NEW x \in S
      PROVE  \E i \in 1 .. n : s[i] = x
  <2>1. s \in Injection(1 .. n, S)
    BY <1>2 DEF Injection, IsInjective
  <2>2. Cardinality(1 .. n) = n
    BY <1>1, FS_Interval
  <2>3. s \in Surjection(1 .. n, S)
    BY <2>1, <2>2, FS_Injection DEF n
  <2> QED  BY <2>3 DEF Surjection
<1> QED  BY <1>1, <1>2, <1>3, <1>4 DEF Hive!Contains

\* The lists that a key needs: of its subkeys first, of its values last.
LEMMA KeyLists ==
  ASSUME NEW subkeys, NEW values, NEW a, NEW b, NEW lists,
         lists = (IF subkeys = {} THEN <<>> ELSE <<a>>) \o (IF values = {} THEN <<>> ELSE <<b>>)
  PROVE  /\ Len(lists) \in 0 .. 2 /\ \A i \in 1 .. Len(lists) : lists[i] = a \/ lists[i] = b
         /\ subkeys # {} => Len(lists) >= 1 /\ lists[1] = a
         /\ values # {} => Len(lists) >= 1 /\ lists[Len(lists)] = b
         /\ lists \in Seq({a, b})
<1> DEFINE p == IF subkeys = {} THEN <<>> ELSE <<a>>
           q == IF values = {} THEN <<>> ELSE <<b>>
<1>1. /\ p \in Seq({a, b}) /\ Len(p) \in {0, 1} /\ (subkeys # {} => Len(p) = 1 /\ p[1] = a)
      /\ Len(p) = 1 => p[1] = a
  OBVIOUS
<1>2. /\ q \in Seq({a, b}) /\ Len(q) \in {0, 1} /\ (values # {} => Len(q) = 1 /\ q[1] = b)
      /\ Len(q) = 1 => q[1] = b
  OBVIOUS
<1>3. lists = p \o q
  OBVIOUS
<1> HIDE DEF p, q
<1>4. /\ lists \in Seq({a, b}) /\ Len(lists) = Len(p) + Len(q)
      /\ \A i \in 1 .. Len(lists) : lists[i] = IF i <= Len(p) THEN p[i] ELSE q[i - Len(p)]
  BY <1>1, <1>2, <1>3, ConcatProperties
<1>5. Len(p) = 1 => lists[1] = a
  BY <1>1, <1>2, <1>4
<1>6. Len(q) = 1 => lists[Len(lists)] = b
  BY <1>1, <1>2, <1>4
<1>7. \A i \in 1 .. Len(lists) : lists[i] = a \/ lists[i] = b
  BY <1>4, ElementOfSeq
<1> QED  BY <1>1, <1>2, <1>4, <1>5, <1>6, <1>7

\* One more cell leaves the others where they are.
LEMMA OffsetsSame ==
  ASSUME NEW lists, NEW cells, Bounded(lists), Bounded(cells), top \in Nat,
         Len(cells) = Len(lists) + 1, \A i \in 1 .. Len(lists) : cells[i] = lists[i]
  PROVE  \A i \in 1 .. Len(cells) : Hive!Offsets(cells)[i] = Hive!Offsets(lists)[i]
<1> DEFINE at == Hive!Offsets(cells)
           was == Hive!Offsets(lists)
           n == Len(lists)
<1>1. n \in 0 .. 3 /\ n + 1 \in 0 .. 3
  BY DEF Bounded
<1>2. /\ at[1] = top /\ \A i \in 1 .. n + 1 : at[i + 1] = at[i] + Hive!CellSize(cells[i].len)
      /\ was[1] = top /\ \A i \in 1 .. n : was[i + 1] = was[i] + Hive!CellSize(lists[i].len)
  BY OffsetsAdd
<1>3. \A i \in 1 .. n : at[i] = was[i] => at[i + 1] = was[i + 1]
  BY <1>1, <1>2
<1> HIDE DEF at, was, n
<1>4. n >= 1 => at[2] = was[2]
  <2>1. n >= 1 => 1 \in 1 .. n
    BY <1>1
  <2>2. 1 \in 1 .. n => at[1 + 1] = was[1 + 1]
    BY <1>2, <1>3
  <2> QED  BY <2>1, <2>2
<1>5. n >= 2 => at[3] = was[3]
  <2>1. n >= 2 => 2 \in 1 .. n /\ n >= 1
    BY <1>1
  <2>2. 2 \in 1 .. n /\ at[2] = was[2] => at[2 + 1] = was[2 + 1]
    BY <1>3
  <2> QED  BY <1>4, <2>1, <2>2
<1>6. \A i \in 1 .. n + 1 : i = 1 \/ (i = 2 /\ n >= 1) \/ (i = 3 /\ n >= 2)
  BY <1>1
<1>7. \A i \in 1 .. n + 1 : at[i] = was[i]
  BY <1>2, <1>4, <1>5, <1>6
<1> QED  BY <1>7 DEF at, was, n

\* A cell that gets its size when it is written, and is a list of `entries`.
Unsized(cell) ==
  cell.len \in Nat /\ \A s \in Nat : Sized(cell, s).size = s /\ Sized(cell, s).len = cell.len
IsList(cell, kind_, entries) ==
  \A s \in Nat : Sized(cell, s).kind = kind_ /\ Sized(cell, s).entries = entries

LEMMA ListSized ==
  ASSUME NEW kind_, NEW head \in Nat, NEW width \in Nat, NEW entries, Len(entries) \in Nat,
         NEW cell, cell = Hive!ListOf(kind_, head, width, entries)
  PROVE  Unsized(cell) /\ IsList(cell, kind_, entries)
<1>1. head + width * Len(entries) \in Nat
  OBVIOUS
<1>2. cell.len = head + width * Len(entries)
  BY DEF Hive!ListOf
<1>3. \A s : /\ Sized(cell, s).kind = kind_ /\ Sized(cell, s).len = head + width * Len(entries)
             /\ Sized(cell, s).size = s /\ Sized(cell, s).entries = entries
  BY DEF Sized, Hive!ListOf
<1> QED  BY <1>1, <1>2, <1>3 DEF Unsized, IsList

\* key: what is written, and where.
LEMMA KeyLays ==
  ASSUME CellsTiled, NEW lists, NEW nk, NEW a, NEW b, lists \in Seq({a, b}), Len(lists) \in 0 .. 2,
         Unsized(a), Unsized(b), Unsized(nk),
         NEW patched, Hive!Alloc(Append(lists, nk), patched),
         \A o \in DOMAIN buf : patched[o].size = buf[o].size /\ patched[o].len = buf[o].len,
         NEW at, at = Hive!Offsets(lists)
  PROVE  /\ CellsTiled' /\ \A i \in 1 .. Len(lists) + 1 : at[i] \in Nat
         /\ at[Len(lists) + 1] \notin DOMAIN buf /\ at[Len(lists) + 1] \in DOMAIN buf'
         /\ \A o \in DOMAIN buf : o \in DOMAIN buf' /\ buf'[o] = patched[o]
         /\ \A o \in DOMAIN buf' :
              \/ o \in DOMAIN buf \/ o = at[Len(lists) + 1]
              \/ \E i \in 1 .. Len(lists) : o = at[i]
         /\ \E s \in Nat : buf'[at[Len(lists) + 1]] = Sized(nk, s)
         /\ \A i \in 1 .. Len(lists) :
              at[i] \in DOMAIN buf' /\ \E s \in Nat : buf'[at[i]] = Sized(lists[i], s)
<1> DEFINE n == Len(lists)
           cells == Append(lists, nk)
           new == Hive!Offsets(cells)
<1>1. n \in 0 .. 2 /\ \A i \in 1 .. n : lists[i] = a \/ lists[i] = b
  BY ElementOfSeq
<1>2. Len(cells) = n + 1 /\ cells[n + 1] = nk /\ \A i \in 1 .. n : cells[i] = lists[i]
  <2>1. lists \in Seq({a, b, nk}) /\ nk \in {a, b, nk}
    OBVIOUS
  <2> QED  BY <2>1, AppendProperties
<1>3. Hive!Alloc(cells, patched)
  OBVIOUS
<1> HIDE DEF cells, n
<1>4. \A i \in 1 .. n + 1 : cells[i] = a \/ cells[i] = b \/ cells[i] = nk
  BY <1>1, <1>2
<1>5. \A i \in 1 .. n + 1 : Unsized(cells[i])
  BY <1>4
<1>6. \A i \in 1 .. n : Unsized(lists[i])
  BY <1>1
<1>7. Bounded(lists) /\ Bounded(cells)
  <2>1. n + 1 \in 0 .. 3 /\ n \in 0 .. 3 /\ Len(lists) = n
    BY <1>1 DEF n
  <2> QED  BY <1>2, <1>5, <1>6, <2>1 DEF Bounded, Unsized
<1>8. top \in Nat /\ top % 8 = 0
  BY DEF CellsTiled
<1>9. \A i \in 1 .. n + 1 : new[i] = at[i]
  BY <1>2, <1>7, <1>8, OffsetsSame DEF n
<1>10. \A i \in 1 .. n + 1 : at[i] \in Nat
  BY <1>7, <1>8, OffsetsGrow DEF n
<1>11. CellsTiled'
  <2>1. \A i \in 1 .. Len(cells), s \in Nat :
          Sized(cells[i], s).size = s /\ Sized(cells[i], s).len = cells[i].len
    BY <1>2, <1>5 DEF Unsized
  <2>2. Len(cells) # 0
    BY <1>1, <1>2
  <2> QED  BY <1>3, <1>7, <2>1, <2>2, AllocTiles
<1>12. /\ DOMAIN buf' = DOMAIN buf \cup {at[i] : i \in 1 .. n + 1}
       /\ \A o \in DOMAIN buf : buf'[o] = patched[o]
       /\ \A i \in 1 .. n + 1 :
            at[i] \notin DOMAIN buf /\ buf'[at[i]] = Sized(cells[i], Hive!CellSize(cells[i].len))
  <2>1. /\ DOMAIN buf' = DOMAIN buf \cup {new[i] : i \in 1 .. Len(cells)}
        /\ \A o \in DOMAIN buf : buf'[o] = patched[o]
        /\ \A i \in 1 .. Len(cells) :
             new[i] \notin DOMAIN buf /\ buf'[new[i]] = Sized(cells[i], Hive!CellSize(cells[i].len))
    BY <1>3, <1>7, AllocLays
  <2> HIDE DEF new
  <2> QED  BY <1>2, <1>9, <2>1
<1> HIDE DEF new
<1>13. \A i \in 1 .. n + 1 : Hive!CellSize(cells[i].len) \in Nat
  BY <1>5, CellSizeFits DEF Unsized
<1>14. n + 1 \in 1 .. n + 1 /\ \A i \in 1 .. n : i \in 1 .. n + 1
  BY <1>1
<1>15. \A i \in 1 .. n + 1 : i \in 1 .. n \/ i = n + 1
  BY <1>1
<1>16. \A o \in DOMAIN buf : o \in DOMAIN buf' /\ buf'[o] = patched[o]
  BY <1>12
<1>17. at[n + 1] \notin DOMAIN buf /\ at[n + 1] \in DOMAIN buf'
  BY <1>12, <1>14
<1>18. \E s \in Nat : buf'[at[n + 1]] = Sized(nk, s)
  BY <1>2, <1>12, <1>13, <1>14
<1>19. \A i \in 1 .. n : at[i] \in DOMAIN buf' /\ \E s \in Nat : buf'[at[i]] = Sized(lists[i], s)
  BY <1>2, <1>12, <1>13, <1>14
<1>20. \A o \in DOMAIN buf' : o \in DOMAIN buf \/ o = at[n + 1] \/ \E i \in 1 .. n : o = at[i]
  BY <1>12, <1>15
<1> QED  BY <1>10, <1>11, <1>16, <1>17, <1>18, <1>19, <1>20 DEF n

\* What a list of subkeys says of the key that has it.
LEMMA KeyListsSubkeys ==
  ASSUME NEW k, buf'[k] \in KeyCells, Nowhere \notin Nat,
         NEW subkeys, NEW sorted, sorted \in Seq(subkeys), subkeys = {} => Len(sorted) = 0,
         subkeys \subseteq Hive!Cells("nk")', \A o \in subkeys : buf'[o].parent = k,
         \A i, j \in 1 .. Len(sorted) : i < j => buf'[sorted[i]].name < buf'[sorted[j]].name,
         buf'[k].nsubkeys = Len(sorted),
         subkeys = {} => buf'[k].subkeys = Nowhere,
         subkeys # {} => /\ buf'[k].subkeys \in Nat /\ buf'[k].subkeys \in Hive!Cells("lf")'
                         /\ buf'[buf'[k].subkeys].entries = sorted
  PROVE  Hive!ListsSubkeys(k)'
<1>1. CASE subkeys = {}
  BY <1>1 DEF Hive!ListsSubkeys
<1>2. CASE subkeys # {}
  <2>1. \A i \in 1 .. Len(sorted) : sorted[i] \in subkeys
    BY ElementOfSeq
  <2>2. buf'[k].subkeys # Nowhere
    BY <1>2
  <2> QED  BY <1>2, <2>1, <2>2 DEF Hive!ListsSubkeys
<1> QED  BY <1>1, <1>2

LEMMA KeyListsValues ==
  ASSUME NEW k, buf'[k] \in KeyCells, Nowhere \notin Nat,
         NEW values, NEW listed, listed \in Seq(values), values = {} => Len(listed) = 0,
         values \subseteq Hive!Cells("vk")', buf'[k].nvalues = Len(listed),
         values = {} => buf'[k].values = Nowhere,
         values # {} => /\ buf'[k].values \in Nat /\ buf'[k].values \in Hive!Cells("list")'
                        /\ buf'[buf'[k].values].entries = listed
  PROVE  Hive!ListsValues(k)'
<1>1. CASE values = {}
  BY <1>1 DEF Hive!ListsValues
<1>2. CASE values # {}
  <2>1. \A i \in 1 .. Len(listed) : listed[i] \in values
    BY ElementOfSeq
  <2>2. buf'[k].values # Nowhere
    BY <1>2
  <2> QED  BY <1>2, <2>1, <2>2 DEF Hive!ListsValues
<1> QED  BY <1>1, <1>2

LEMMA KeyKeeps ==
  ASSUME HiveInv, NEW name \in KeyNames, NEW subkeys \in SUBSET orphans,
         NEW values \in SUBSET unused_values, Hive!Key(name, subkeys, values)
  PROVE  HiveInv'
<1>1. PICK sorted \in Hive!SubkeyList(subkeys), listed \in Hive!SetToSeqs(values) :
        LET lists == (IF subkeys = {} THEN <<>> ELSE <<Hive!ListOf("lf", 4, 8, sorted)>>)
                     \o (IF values = {} THEN <<>> ELSE <<Hive!ListOf("list", 0, 4, listed)>>)
            at == Hive!Offsets(lists)
            off == at[Len(lists) + 1]
            nk == [kind |-> "nk", len |-> 76 + NameLen(name), size |-> 0, name |-> name,
                   parent |-> Nowhere, security |-> HBIN_HEADER_SIZE,
                   nsubkeys |-> Len(sorted), nvalues |-> Len(listed),
                   subkeys |-> IF subkeys = {} THEN Nowhere ELSE at[1],
                   values |-> IF values = {} THEN Nowhere ELSE at[Len(lists)]]
        IN
        /\ phase = "build"
        /\ Hive!Alloc(Append(lists, nk),
                      [o \in DOMAIN buf |->
                         IF o \in subkeys THEN [buf[o] EXCEPT !.parent = off] ELSE buf[o]])
        /\ orphans' = (orphans \ subkeys) \cup {off}
        /\ unused_values' = unused_values \ values
        /\ UNCHANGED <<phase, root>>
  BY DEF Hive!Key
<1> DEFINE a == Hive!ListOf("lf", 4, 8, sorted)
           b == Hive!ListOf("list", 0, 4, listed)
           lists == (IF subkeys = {} THEN <<>> ELSE <<a>>) \o (IF values = {} THEN <<>> ELSE <<b>>)
           at == Hive!Offsets(lists)
           n == Len(lists)
           off == at[n + 1]
           l1 == IF subkeys = {} THEN Nowhere ELSE at[1]
           l2 == IF values = {} THEN Nowhere ELSE at[n]
           len_ == 76 + NameLen(name)
           nk == [kind |-> "nk", len |-> len_, size |-> 0, name |-> name,
                  parent |-> Nowhere, security |-> HBIN_HEADER_SIZE,
                  nsubkeys |-> Len(sorted), nvalues |-> Len(listed),
                  subkeys |-> l1, values |-> l2]
           patched == [o \in DOMAIN buf |->
                         IF o \in subkeys THEN [buf[o] EXCEPT !.parent = off] ELSE buf[o]]
<1>2. /\ phase = "build" /\ phase' = "build" /\ Hive!Alloc(Append(lists, nk), patched)
      /\ orphans' = (orphans \ subkeys) \cup {off} /\ unused_values' = unused_values \ values
      /\ root' = root
  BY <1>1
<1>3. IsFiniteSet(subkeys) /\ IsFiniteSet(values) /\ IsFiniteSet(orphans) /\ IsFiniteSet(unused_values)
  BY FS_Subset DEF HiveInv
<1>4. /\ sorted \in Seq(subkeys) /\ Len(sorted) \in Nat /\ (subkeys = {} => Len(sorted) = 0)
      /\ \A x \in subkeys : Hive!Contains(sorted, x)
      /\ \A i, j \in 1 .. Len(sorted) : i < j => buf[sorted[i]].name < buf[sorted[j]].name
  <2>1. /\ sorted \in Hive!SetToSeqs(subkeys)
        /\ \A i, j \in DOMAIN sorted : i < j => buf[sorted[i]].name < buf[sorted[j]].name
    BY DEF Hive!SubkeyList
  <2>2. /\ sorted \in Seq(subkeys) /\ Len(sorted) \in Nat /\ (subkeys = {} => Len(sorted) = 0)
        /\ \A x \in subkeys : Hive!Contains(sorted, x)
    BY <1>3, <2>1, SeqsCover
  <2>3. DOMAIN sorted = 1 .. Len(sorted)
    BY <2>2
  <2> QED  BY <2>1, <2>2, <2>3
<1>5. listed \in Seq(values) /\ Len(listed) \in Nat /\ (values = {} => Len(listed) = 0)
  BY <1>3, SeqsCover
<1>a. a = Hive!ListOf("lf", 4, 8, sorted) /\ b = Hive!ListOf("list", 0, 4, listed)
  OBVIOUS
<1>b. lists = (IF subkeys = {} THEN <<>> ELSE <<a>>) \o (IF values = {} THEN <<>> ELSE <<b>>)
  OBVIOUS
<1>c. nk = [kind |-> "nk", len |-> len_, size |-> 0, name |-> name,
            parent |-> Nowhere, security |-> HBIN_HEADER_SIZE,
            nsubkeys |-> Len(sorted), nvalues |-> Len(listed),
            subkeys |-> l1, values |-> l2]
  OBVIOUS
<1> HIDE DEF a, b, lists, nk, len_
<1>6. /\ n \in 0 .. 2 /\ lists \in Seq({a, b})
      /\ \A i \in 1 .. n : lists[i] = a \/ lists[i] = b
      /\ subkeys # {} => n >= 1 /\ lists[1] = a
      /\ values # {} => n >= 1 /\ lists[n] = b
  BY <1>b, KeyLists
<1>7. Unsized(a) /\ Unsized(b) /\ IsList(a, "lf", sorted) /\ IsList(b, "list", listed)
  <2>1. 0 \in Nat /\ 4 \in Nat /\ 8 \in Nat
    OBVIOUS
  <2>2. Unsized(a) /\ IsList(a, "lf", sorted)
    BY <1>a, <1>4, <2>1, ListSized
  <2>3. Unsized(b) /\ IsList(b, "list", listed)
    BY <1>a, <1>5, <2>1, ListSized
  <2> QED  BY <2>2, <2>3
<1>8. CellsTiled /\ CellsSound /\ top \in Nat /\ top % 8 = 0
  BY <1>2, HiveCellsSound DEF HiveInv, CellsTiled
<1>9. Nowhere \notin Nat /\ len_ \in Nat
  <2>1. Nowhere \notin Nat /\ NameLen(name) \in Nat
    BY PartsAssumption DEF PartsAssumption
  <2> QED  BY <2>1 DEF len_
<1>10. \A i \in 1 .. n + 1 : at[i] \in Nat
  <2>1. Bounded(lists)
    BY <1>6, <1>7 DEF Bounded, Unsized
  <2> QED  BY <1>8, <2>1, OffsetsGrow
<1>11. PICK place1, place2, end :
         /\ place1 = l1 /\ place2 = l2 /\ end = off /\ end \in Nat
         /\ place1 \in Nat \cup {Nowhere} /\ place2 \in Nat \cup {Nowhere}
  <2>1. n + 1 \in 1 .. n + 1 /\ (n >= 1 => 1 \in 1 .. n + 1 /\ n \in 1 .. n + 1)
    BY <1>6
  <2>2. off \in Nat /\ l1 \in Nat \cup {Nowhere} /\ l2 \in Nat \cup {Nowhere}
    BY <1>6, <1>10, <2>1
  <2> QED  BY <2>2
<1> HIDE DEF l1, l2, patched
<1>12. ASSUME NEW s \in Nat
       PROVE  /\ nk.len \in Nat /\ Sized(nk, s) \in KeyCells
              /\ Sized(nk, s).size = s /\ Sized(nk, s).len = nk.len
              /\ Sized(nk, s).name = name /\ Sized(nk, s).parent = Nowhere
              /\ Sized(nk, s).security = HBIN_HEADER_SIZE
              /\ Sized(nk, s).nsubkeys = Len(sorted) /\ Sized(nk, s).nvalues = Len(listed)
              /\ Sized(nk, s).subkeys = l1 /\ Sized(nk, s).values = l2
  <2>1. l1 \in Nat \cup {Nowhere} /\ l2 \in Nat \cup {Nowhere}
    BY <1>11
  <2>2. Len(sorted) \in Nat /\ Len(listed) \in Nat
    BY <1>4, <1>5
  <2>3. HBIN_HEADER_SIZE \in Nat
    BY PartsAssumption DEF PartsAssumption
  <2>4. Sized(nk, s) = [kind |-> "nk", len |-> len_, size |-> s, name |-> name,
                        parent |-> Nowhere, security |-> HBIN_HEADER_SIZE,
                        nsubkeys |-> Len(sorted), nvalues |-> Len(listed),
                        subkeys |-> l1, values |-> l2]
    BY <1>c DEF Sized
  <2>5. nk.len = len_
    BY <1>c
  <2>6. Sized(nk, s) \in KeyCells
    BY <1>9, <2>1, <2>2, <2>3, <2>4 DEF KeyCells
  <2> QED  BY <1>9, <2>4, <2>5, <2>6
<1>13. Unsized(nk)
  <2>1. nk.len \in Nat
    <3>1. 0 \in Nat
      OBVIOUS
    <3> QED  BY <1>12, <3>1
  <2> QED  BY <1>12, <2>1 DEF Unsized
<1>14. /\ DOMAIN patched = DOMAIN buf
       /\ \A o \in DOMAIN buf : patched[o] = IF o \in subkeys THEN [buf[o] EXCEPT !.parent = off] ELSE buf[o]
  BY DEF patched
<1>15. \A o \in subkeys : o \in DOMAIN buf /\ buf[o] \in KeyCells
  BY <1>8 DEF CellsSound, KeySound, Hive!Cells
<1>16. \A o \in DOMAIN buf : patched[o].size = buf[o].size /\ patched[o].len = buf[o].len
  <2> SUFFICES ASSUME NEW o \in subkeys, o \in DOMAIN buf
               PROVE  patched[o].size = buf[o].size /\ patched[o].len = buf[o].len
    BY <1>14
  <2>1. buf[o] \in KeyCells /\ patched[o] = [buf[o] EXCEPT !.parent = end]
    BY <1>11, <1>14, <1>15
  <2> QED  BY <1>11, <2>1, ParentPatched
<1> HIDE DEF off
<1>17. /\ CellsTiled'
       /\ end \notin DOMAIN buf /\ end \in DOMAIN buf'
       /\ \A o \in DOMAIN buf : o \in DOMAIN buf' /\ buf'[o] = patched[o]
       /\ \A o \in DOMAIN buf' : o \in DOMAIN buf \/ o = end \/ \E i \in 1 .. n : o = at[i]
       /\ \E s \in Nat : buf'[end] = Sized(nk, s)
       /\ \A i \in 1 .. n : at[i] \in DOMAIN buf' /\ \E s \in Nat : buf'[at[i]] = Sized(lists[i], s)
  BY <1>2, <1>6, <1>7, <1>8, <1>11, <1>13, <1>16, KeyLays DEF off
<1>18. /\ buf'[end] \in KeyCells /\ buf'[end].name = name /\ buf'[end].parent = Nowhere
       /\ buf'[end].security = HBIN_HEADER_SIZE
       /\ buf'[end].nsubkeys = Len(sorted) /\ buf'[end].nvalues = Len(listed)
       /\ buf'[end].subkeys = place1 /\ buf'[end].values = place2
  BY <1>11, <1>12, <1>17
<1>19. Patched(subkeys, end)
  BY <1>11, <1>14, <1>17 DEF Patched, off
<1>20. \A i \in 1 .. n : buf'[at[i]].kind \in {"lf", "list"}
  BY <1>6, <1>7, <1>17 DEF IsList
<1>21. subkeys # {} => /\ place1 \in Nat /\ place1 \in Hive!Cells("lf")'
                       /\ buf'[place1].entries = sorted
  <2> SUFFICES ASSUME subkeys # {}
               PROVE  /\ place1 \in Nat /\ place1 \in Hive!Cells("lf")'
                      /\ buf'[place1].entries = sorted
    OBVIOUS
  <2>1. 1 \in 1 .. n /\ 1 \in 1 .. n + 1 /\ lists[1] = a
    BY <1>6
  <2>2. place1 = at[1]
    BY <1>11 DEF l1
  <2>3. place1 \in DOMAIN buf' /\ buf'[place1].kind = "lf" /\ buf'[place1].entries = sorted
    BY <1>7, <1>17, <2>1, <2>2 DEF IsList
  <2>4. place1 \in Nat
    BY <1>10, <2>1, <2>2
  <2> QED  BY <2>3, <2>4 DEF Hive!Cells
<1>22. values # {} => /\ place2 \in Nat /\ place2 \in Hive!Cells("list")'
                      /\ buf'[place2].entries = listed
  <2> SUFFICES ASSUME values # {}
               PROVE  /\ place2 \in Nat /\ place2 \in Hive!Cells("list")'
                      /\ buf'[place2].entries = listed
    OBVIOUS
  <2>1. n \in 1 .. n /\ n \in 1 .. n + 1 /\ lists[n] = b
    BY <1>6
  <2>2. place2 = at[n]
    BY <1>11 DEF l2
  <2>3. place2 \in DOMAIN buf' /\ buf'[place2].kind = "list" /\ buf'[place2].entries = listed
    BY <1>7, <1>17, <2>1, <2>2 DEF IsList
  <2>4. place2 \in Nat
    BY <1>10, <2>1, <2>2
  <2> QED  BY <2>3, <2>4 DEF Hive!Cells
<1>23. (subkeys = {} => place1 = Nowhere) /\ (values = {} => place2 = Nowhere)
  BY <1>11 DEF l1, l2
<1>24. /\ \A o \in DOMAIN buf : buf'[o].kind = buf[o].kind
       /\ \A kind_ : Hive!Cells(kind_) \subseteq Hive!Cells(kind_)'
       /\ \A k \in Hive!Cells("nk") :
            /\ buf'[k].name = buf[k].name
            /\ buf'[k].parent = IF k \in subkeys THEN end ELSE buf[k].parent
  BY <1>8, <1>11, <1>19, CellsStay
<1>25. /\ \A k \in Hive!Cells("nk") : KeySound(k)' /\ (k \notin orphans => Linked(k)')
       /\ \A v \in Hive!Cells("vk") : ValueSound(v)'
  BY <1>8, <1>11, <1>19, OldStaysSound
<1> HIDE DEF at, n
<1>26. Hive!Cells("nk")' = Hive!Cells("nk") \cup {end} /\ end \notin Hive!Cells("nk")
  <2>1. buf'[end].kind = "nk"
    BY <1>18 DEF KeyCells
  <2>2. ASSUME NEW o \in Hive!Cells("nk")'
        PROVE  o \in Hive!Cells("nk") \/ o = end
    BY <1>17, <1>20, <1>24 DEF Hive!Cells
  <2>3. end \in Hive!Cells("nk")' /\ end \notin Hive!Cells("nk")
    BY <1>17, <2>1 DEF Hive!Cells
  <2> QED  BY <1>24, <2>2, <2>3
<1>27. Hive!Cells("vk")' = Hive!Cells("vk")
  <2>1. buf'[end].kind = "nk"
    BY <1>18 DEF KeyCells
  <2>2. ASSUME NEW o \in Hive!Cells("vk")'
        PROVE  o \in Hive!Cells("vk")
    BY <1>17, <1>20, <1>24, <2>1 DEF Hive!Cells
  <2> QED  BY <1>24, <2>2
<1>28. subkeys \subseteq Hive!Cells("nk") /\ orphans \subseteq Hive!Cells("nk")
       /\ values \subseteq Hive!Cells("vk") /\ unused_values \subseteq Hive!Cells("vk")
  BY DEF HiveInv
<1>29. KeySound(end)'
  <2>1. Hive!ListsSubkeys(end)'
    <3>1. \A o \in subkeys : buf'[o].parent = end /\ buf'[o].name = buf[o].name
      BY <1>24, <1>28
    <3>2. \A i \in 1 .. Len(sorted) : sorted[i] \in subkeys
      BY <1>4, ElementOfSeq
    <3>3. \A i, j \in 1 .. Len(sorted) : i < j => buf'[sorted[i]].name < buf'[sorted[j]].name
      BY <1>4, <3>1, <3>2
    <3>4. subkeys \subseteq Hive!Cells("nk")'
      BY <1>24, <1>28
    <3> QED  BY <1>4, <1>9, <1>18, <1>21, <1>23, <3>1, <3>3, <3>4, KeyListsSubkeys
  <2>2. Hive!ListsValues(end)'
    <3>1. values \subseteq Hive!Cells("vk")'
      BY <1>24, <1>28
    <3> QED  BY <1>5, <1>9, <1>18, <1>22, <1>23, <3>1, KeyListsValues
  <2> QED  BY <1>18, <2>1, <2>2 DEF KeySound
<1>30. ASSUME NEW k \in subkeys
       PROVE  Linked(k)'
  <2>1. buf'[k].parent = end /\ end \in Hive!Cells("nk")'
    BY <1>24, <1>26, <1>28
  <2>2. buf'[end].subkeys = place1 /\ place1 \in Hive!Cells("lf")' /\ buf'[place1].entries = sorted
    BY <1>18, <1>21
  <2>3. Hive!Contains(sorted, k)
    BY <1>4
  <2> QED  BY <2>1, <2>2, <2>3 DEF Linked, Hive!Contains
<1>31. orphans' = (orphans \ subkeys) \cup {end}
  BY <1>2, <1>11
<1>32. ASSUME NEW k \in Hive!Cells("nk")'
       PROVE  KeySound(k)' /\ IF k \in orphans' THEN buf'[k].parent = Nowhere ELSE Linked(k)'
  <2>1. CASE k = end
    BY <1>18, <1>29, <1>31, <2>1
  <2>2. CASE k \in Hive!Cells("nk")
    <3>1. k # end
      BY <1>26, <2>2
    <3>2. CASE k \in subkeys
      BY <1>25, <1>30, <1>31, <2>2, <3>1, <3>2
    <3>3. CASE k \in orphans \ subkeys
      <4>1. buf[k].parent = Nowhere
        BY <1>8, <2>2, <3>3 DEF CellsSound
      <4> QED  BY <1>24, <1>25, <1>31, <2>2, <3>3, <4>1
    <3>4. CASE k \notin orphans
      BY <1>25, <1>31, <2>2, <3>1, <3>4
    <3> QED  BY <3>2, <3>3, <3>4
  <2> QED  BY <1>26, <2>1, <2>2
<1>33. IsFiniteSet(orphans') /\ IsFiniteSet(unused_values')
  <2>1. IsFiniteSet(orphans \ subkeys) /\ IsFiniteSet(unused_values \ values)
    BY <1>3, FS_Subset
  <2> QED  BY <1>2, <1>31, <2>1, FS_AddElement
<1>34. orphans' \subseteq Hive!Cells("nk")' /\ unused_values' \subseteq Hive!Cells("vk")'
  BY <1>2, <1>26, <1>27, <1>28, <1>31
<1>35. HBIN_HEADER_SIZE \in Hive!Cells("sk")'
  BY <1>2, <1>24 DEF HiveInv
<1>36. \A v \in Hive!Cells("vk")' : ValueSound(v)'
  BY <1>25, <1>27
<1>37. Hive!HiveIsSound'
  BY <1>2 DEF Hive!HiveIsSound
<1> QED  BY <1>2, <1>17, <1>32, <1>33, <1>34, <1>35, <1>36, <1>37 DEF HiveInv

LEMMA SerialiseKeeps == HiveInv /\ Hive!Serialise => HiveInv'
<1> SUFFICES ASSUME HiveInv, Hive!Serialise PROVE HiveInv'
  OBVIOUS
<1>1. PICK pad : pad = (-top) % PAGE
  OBVIOUS
<1>2. /\ phase = "build" /\ phase' = "done" /\ unused_values = {}
      /\ top' = top + pad /\ orphans' = orphans /\ unused_values' = unused_values
      /\ buf' = IF pad = 0 THEN buf
                ELSE [o \in DOMAIN buf \cup {top} |->
                        IF o = top THEN [kind |-> "free", len |-> 0, size |-> pad] ELSE buf[o]]
  BY <1>1 DEF Hive!Serialise
<1>3. PICK first \in orphans : orphans = {first} /\ root' = first
  BY DEF Hive!Serialise
<1>4. CellsTiled /\ CellsSound /\ top \in Nat /\ top % 8 = 0
  BY <1>2, HiveCellsSound DEF HiveInv, CellsTiled
<1>5. pad \in Nat /\ pad % 8 = 0 /\ (top + pad) % PAGE = 0
  <2>1. PAGE \in Nat \ {0} /\ PAGE % 8 = 0
    BY PartsAssumption DEF PartsAssumption
  <2> QED  BY <1>1, <1>4, <2>1, PadFits
<1>6. top \notin DOMAIN buf
  <2>1. \A o \in DOMAIN buf : o \in Nat /\ o < top
    BY <1>4 DEF CellsTiled
  <2> QED  BY <1>4, <2>1
<1>7. /\ \A o \in DOMAIN buf : o \in DOMAIN buf' /\ buf'[o] = buf[o]
      /\ pad = 0 => DOMAIN buf' = DOMAIN buf /\ top' = top
      /\ pad # 0 => /\ DOMAIN buf' = DOMAIN buf \cup {top} /\ buf'[top].kind = "free"
                    /\ buf'[top].len = 0 /\ buf'[top].size = pad
  <2>1. CASE pad = 0
    BY <1>2, <1>4, <2>1
  <2>2. CASE pad # 0
    BY <1>2, <1>6, <2>2
  <2> QED  BY <2>1, <2>2
<1>8. Hive!Tiled'
  <2>1. top' % PAGE = 0
    BY <1>2, <1>5
  <2>2. DOMAIN buf \cup {top} \subseteq DOMAIN buf' \cup {top'}
    BY <1>7
  <2>3. ASSUME NEW o \in DOMAIN buf'
        PROVE  /\ o % 8 = 0 /\ buf'[o].size >= 4 + buf'[o].len
               /\ o + buf'[o].size \in DOMAIN buf' \cup {top'}
    <3>1. CASE o \in DOMAIN buf
      <4>1. o % 8 = 0 /\ buf[o].size >= 4 + buf[o].len /\ o + buf[o].size \in DOMAIN buf \cup {top}
        BY <1>4, <3>1 DEF CellsTiled
      <4> QED  BY <1>7, <2>2, <3>1, <4>1
    <3>2. CASE o \notin DOMAIN buf
      <4>1. o = top /\ pad # 0
        BY <1>7, <3>2
      <4>2. pad >= 8
        BY <1>5, <4>1
      <4>3. buf'[o].size = pad /\ buf'[o].len = 0
        BY <1>7, <4>1
      <4>4. o + buf'[o].size = top'
        BY <1>2, <4>1, <4>3
      <4>5. buf'[o].size >= 4 + buf'[o].len
        BY <1>5, <4>2, <4>3
      <4> QED  BY <1>4, <4>1, <4>4, <4>5
    <3> QED  BY <3>1, <3>2
  <2>4. ASSUME NEW o \in DOMAIN buf' \cup {top'}, o # HBIN_HEADER_SIZE
        PROVE  \E p \in DOMAIN buf' : p + buf'[p].size = o
    <3>1. CASE o \in DOMAIN buf \cup {top}
      <4>1. PICK p \in DOMAIN buf : p + buf[p].size = o
        BY <1>4, <2>4, <3>1 DEF CellsTiled
      <4> QED  BY <1>7, <4>1
    <3>2. CASE o \notin DOMAIN buf \cup {top}
      <4>1. pad # 0 /\ o = top'
        BY <1>7, <2>4, <3>2
      <4>2. top \in DOMAIN buf' /\ top + buf'[top].size = o
        BY <1>2, <1>7, <4>1
      <4> QED  BY <4>2
    <3> QED  BY <3>1, <3>2
  <2> QED  BY <2>1, <2>3, <2>4 DEF Hive!Tiled
<1>9. Patched({}, 0) /\ {} \subseteq orphans /\ 0 \in Nat
  BY <1>7 DEF Patched
<1>10. /\ \A k \in Hive!Cells("nk") : KeySound(k)' /\ (k \notin orphans => Linked(k)')
       /\ \A v \in Hive!Cells("vk") : ValueSound(v)'
  BY <1>4, <1>9, OldStaysSound
<1>11. /\ \A kind_ : Hive!Cells(kind_) \subseteq Hive!Cells(kind_)'
       /\ Hive!Cells("nk")' = Hive!Cells("nk") /\ Hive!Cells("vk")' = Hive!Cells("vk")
  <2>1. \A kind_ : Hive!Cells(kind_) \subseteq Hive!Cells(kind_)'
    BY <1>7 DEF Hive!Cells
  <2>2. ASSUME NEW o \in DOMAIN buf', buf'[o].kind # "free"
        PROVE  o \in DOMAIN buf /\ buf'[o] = buf[o]
    BY <1>7, <2>2
  <2>3. Hive!Cells("nk")' \subseteq Hive!Cells("nk")
    BY <2>2 DEF Hive!Cells
  <2>4. Hive!Cells("vk")' \subseteq Hive!Cells("vk")
    BY <2>2 DEF Hive!Cells
  <2> QED  BY <2>1, <2>3, <2>4
<1>12. /\ orphans \subseteq Hive!Cells("nk") /\ HBIN_HEADER_SIZE \in Hive!Cells("sk")'
       /\ IsFiniteSet(orphans) /\ IsFiniteSet(unused_values)
  BY <1>2, <1>11 DEF HiveInv
<1>13. \A k \in orphans : k \in Hive!Cells("nk") /\ buf'[k].parent = Nowhere
  BY <1>4, <1>7, <1>12 DEF CellsSound, Hive!Cells
<1>14. ASSUME NEW k \in Hive!Cells("nk")'
       PROVE  KeySound(k)' /\ IF k \in orphans' THEN buf'[k].parent = Nowhere ELSE Linked(k)'
  BY <1>2, <1>10, <1>11, <1>13
<1>15. \A v \in Hive!Cells("vk")' : ValueSound(v)'
  BY <1>10, <1>11
<1>16. Hive!HiveIsSound'
  <2>1. root' \in Hive!Cells("nk")' /\ buf'[root'].parent = Nowhere
    BY <1>3, <1>11, <1>13
  <2>2. ASSUME NEW k \in Hive!Cells("nk")'
        PROVE  /\ buf'[k].security \in Hive!Cells("sk")'
               /\ Hive!ListsSubkeys(k)' /\ Hive!ListsValues(k)'
               /\ k = root' \/ Hive!Listed(k)'
    <3>1. /\ buf'[k].security \in Hive!Cells("sk")'
          /\ Hive!ListsSubkeys(k)' /\ Hive!ListsValues(k)'
      BY <1>12, <1>14 DEF KeySound
    <3>2. CASE k \in orphans
      BY <1>3, <3>1, <3>2
    <3>3. CASE k \notin orphans
      <4>1. Linked(k)'
        BY <1>2, <1>14, <3>3
      <4>2. Hive!Listed(k)'
        BY <4>1 DEF Linked, Hive!Listed
      <4> QED  BY <3>1, <4>2
    <3> QED  BY <3>2, <3>3
  <2>3. \A v \in Hive!Cells("vk")' :
          buf'[v].data \in Hive!Cells("data")' /\ buf'[buf'[v].data].len = buf'[v].data_len
    BY <1>15 DEF ValueSound
  <2> QED  BY <1>8, <2>1, <2>2, <2>3 DEF Hive!HiveIsSound
<1>17. orphans' \subseteq Hive!Cells("nk")' /\ unused_values' \subseteq Hive!Cells("vk")'
  BY <1>2, <1>11, <1>12
<1> QED  BY <1>2, <1>12, <1>14, <1>15, <1>16, <1>17 DEF HiveInv

LEMMA HiveStarts == Hive!Init => HiveInv
<1> SUFFICES ASSUME Hive!Init PROVE HiveInv
  OBVIOUS
<1>1. /\ phase = "new" /\ DOMAIN buf = {} /\ top = HBIN_HEADER_SIZE
      /\ orphans = {} /\ unused_values = {}
  BY DEF Hive!Init
<1>2. Hive!Cells("nk") = {} /\ Hive!Cells("vk") = {}
  BY <1>1 DEF Hive!Cells
<1>3. CellsTiled
  <2>1. HBIN_HEADER_SIZE \in Nat /\ HBIN_HEADER_SIZE % 8 = 0
    BY PartsAssumption DEF PartsAssumption
  <2> QED  BY <1>1, <2>1 DEF CellsTiled
<1>4. IsFiniteSet(orphans) /\ IsFiniteSet(unused_values)
  BY <1>1, FS_EmptySet
<1> QED  BY <1>1, <1>2, <1>3, <1>4 DEF HiveInv, Hive!HiveIsSound

LEMMA HiveSteps == HiveInv /\ [Hive!Next]_<<phase, hiveVars>> => HiveInv'
<1> SUFFICES ASSUME HiveInv, [Hive!Next]_<<phase, hiveVars>> PROVE HiveInv'
  OBVIOUS
<1>1. CASE Hive!Security
  BY <1>1, SecurityKeeps
<1>2. CASE Hive!Serialise
  BY <1>2, SerialiseKeeps
<1>3. ASSUME NEW name \in KeyNames, NEW bytes \in DataSizes, Hive!Value(name, bytes)
      PROVE  HiveInv'
  BY <1>3, ValueKeeps
<1>4. ASSUME NEW name \in KeyNames, NEW subkeys \in SUBSET orphans,
             NEW values \in SUBSET unused_values, Hive!Key(name, subkeys, values)
      PROVE  HiveInv'
  BY <1>4, KeyKeeps
<1>5. CASE UNCHANGED <<phase, hiveVars>>
  <2>1. /\ phase' = phase /\ buf' = buf /\ top' = top /\ orphans' = orphans
        /\ unused_values' = unused_values /\ root' = root
    BY <1>5 DEF hiveVars
  <2>2. \A kind_ : Hive!Cells(kind_)' = Hive!Cells(kind_)
    BY <2>1 DEF Hive!Cells
  <2>3. CellsTiled' <=> CellsTiled
    BY <2>1 DEF CellsTiled
  <2>4. Hive!Tiled' <=> Hive!Tiled
    BY <2>1 DEF Hive!Tiled
  <2>5. ASSUME NEW k
        PROVE  /\ Hive!ListsSubkeys(k)' <=> Hive!ListsSubkeys(k)
               /\ Hive!ListsValues(k)' <=> Hive!ListsValues(k)
               /\ Hive!Listed(k)' <=> Hive!Listed(k)
               /\ Linked(k)' <=> Linked(k)
               /\ ValueSound(k)' <=> ValueSound(k)
    <3>1. Hive!ListsSubkeys(k)' <=> Hive!ListsSubkeys(k)
      BY <2>1, <2>2 DEF Hive!ListsSubkeys
    <3>2. Hive!ListsValues(k)' <=> Hive!ListsValues(k)
      BY <2>1, <2>2 DEF Hive!ListsValues
    <3>3. Hive!Listed(k)' <=> Hive!Listed(k)
      BY <2>1, <2>2 DEF Hive!Listed, Hive!Contains
    <3>4. Linked(k)' <=> Linked(k)
      BY <2>1, <2>2 DEF Linked, Hive!Contains
    <3>5. ValueSound(k)' <=> ValueSound(k)
      BY <2>1, <2>2 DEF ValueSound
    <3> QED  BY <3>1, <3>2, <3>3, <3>4, <3>5
  <2>6. \A k : KeySound(k)' <=> KeySound(k)
    BY <2>1, <2>5 DEF KeySound
  <2>7. Hive!HiveIsSound'
    BY <2>1, <2>2, <2>4, <2>5 DEF Hive!HiveIsSound, HiveInv
  <2> QED  BY <2>1, <2>2, <2>3, <2>5, <2>6, <2>7 DEF HiveInv
<1> QED  BY <1>1, <1>2, <1>3, <1>4, <1>5 DEF Hive!Next

\* A hive that is serialised is what a registry parser relies on, whatever keys
\* and values it was built of and however large they are: its cells fill its
\* pages, and every offset in it is that of a cell of the right kind.
THEOREM HiveAlwaysSound == Spec => []HiveIsSound
<1> DEFINE Inv == part = "hive" => HiveInv
<1>1. Init => Inv
  BY HiveStarts DEF Init
<1>2. Inv /\ [Next]_vars => Inv'
  <2> SUFFICES ASSUME HiveInv, part = "hive", part' = "hive", [Next]_vars PROVE HiveInv'
    BY DEF Next, vars
  <2>1. CASE Next
    BY <2>1, HiveSteps DEF Next, Step
  <2>2. CASE UNCHANGED vars
    BY <2>2, HiveSteps DEF vars
  <2> QED  BY <2>1, <2>2
<1>3. Inv => HiveIsSound
  BY DEF HiveInv, HiveIsSound
<1> QED  BY <1>1, <1>2, <1>3, PTL DEF Spec
=============================================================================
