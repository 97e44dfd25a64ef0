---------------------------- MODULE Dependencies ----------------------------
(***************************************************************************)
(* deps_logic.py and its callers (main.py: proceed_to_warnings,            *)
(* prompt_install_dependencies, install_deps_worker): what a mode needs is *)
(* looked for before the warnings and installed if the user likes, so that *)
(* no writer fails for want of a tool after the drive is wiped.            *)
(*                                                                         *)
(* The tools of a system: wimlib, grub-mkimage, GRUB's BIOS modules, and   *)
(* the mkfs that udisks runs.  The check finds more than the writers do:   *)
(* a program in SEARCH_DIRS that is not on PATH, and GRUB modules without  *)
(* the boot.img that a writer tells them by.                               *)
(***************************************************************************)
EXTENDS Naturals, Sequences, FiniteSets

CONSTANT Distros  \* of the ones get_distro_info tells apart

VARIABLES
  phase,      \* "page", "prompt", "install", "warnings" or "writing"
  distro,
  mode,       \* the dropdowns: "dd", "gpt", "mbr" or "togo"
  tools,      \* what the writers find
  aside,      \* what only the check finds
  install_cmd,  \* the commands left to run, each the packages it installs
  changed     \* history: another mode was chosen while an install ran

depsVars == <<phase, distro, mode, tools, aside, install_cmd, changed>>

Modes == {"dd", "gpt", "mbr", "togo"}
Tools == {"wimlib", "mkimage", "modules", "vfat", "ntfs"}
Mkfs == {"vfat", "ntfs"}  \* udisks answers for these, and runs them

\* What the writers run in each mode.
Needs(m) ==
  CASE m = "dd" -> {}
    [] m = "gpt" -> {"vfat", "wimlib"}
    [] m = "mbr" -> {"ntfs", "mkimage", "modules"}
    [] m = "togo" -> {"vfat", "ntfs", "wimlib"}

Init ==
  /\ phase = "page" /\ distro \in Distros /\ mode \in Modes
  /\ tools \in SUBSET Tools /\ aside \in SUBSET (Tools \ (Mkfs \cup tools))
  /\ install_cmd = <<>> /\ changed = FALSE

-----------------------------------------------------------------------------
\* _have_cmd, and the ntldr.mod of _have_bios_grub.
Found == tools \cup aside

\* Mutant: the command alone is looked for.
CheckWithoutModules ==
  CASE mode = "dd" -> {}
    [] mode = "mbr" -> IF "mkimage" \in Found THEN {} ELSE {"grub-mkimage"}
    [] OTHER -> IF "wimlib" \in Found THEN {} ELSE {"wimlib-imagex"}

\* check_dependencies
CheckDependencies ==
  CASE mode = "dd" -> {}
    [] mode = "mbr" -> IF {"mkimage", "modules"} \subseteq Found THEN {} ELSE {"grub-mkimage"}
    [] OTHER -> IF "wimlib" \in Found THEN {} ELSE {"wimlib-imagex"}

\* proceed_to_warnings asks udisks for the rest; when udisks is away, as if it
\* had none of it.
CannotFormat(away) ==
  {fs \in {"ntfs", "vfat"} :
     /\ fs \in (CASE mode = "dd" -> {} [] mode = "mbr" -> {"ntfs"}
                  [] mode = "togo" -> {"vfat", "ntfs"} [] OTHER -> {"vfat"})
     /\ away \/ fs \notin tools}

\* PKG_MAP
Packages(cmd) ==
  CASE cmd = "grub-mkimage" /\ distro = "debian" -> {"grub-common", "grub-pc-bin"}
    [] cmd = "grub-mkimage" /\ distro = "fedora" -> {"grub2-tools", "grub2-pc-modules"}
    [] cmd = "grub-mkimage" /\ distro \notin {"debian", "fedora"} -> {"grub"}
    [] cmd = "wimlib-imagex" -> {"wimlib"}
    [] cmd = "ntfs" -> {"ntfs-3g"}
    [] OTHER -> {"dosfstools"}

\* What is in one, and in several.
Contents(package) ==
  CASE package = "grub" -> {"mkimage", "modules"}
    [] package \in {"grub-common", "grub2-tools"} -> {"mkimage"}
    [] package \in {"grub-pc-bin", "grub2-pc-modules"} -> {"modules"}
    [] package = "wimlib" -> {"wimlib"}
    [] package = "ntfs-3g" -> {"ntfs"}
    [] package = "dosfstools" -> {"vfat"}
Provides(packages) == UNION {Contents(p) : p \in packages}

\* get_install_cmd: on Debian the package lists first; nothing for a
\* distribution it does not know.
InstallCmd(missing) ==
  LET install == UNION {Packages(cmd) : cmd \in missing} IN
  CASE distro = "unknown" -> <<>> [] distro = "debian" -> <<{}, install>> [] OTHER -> <<install>>

\* proceed_to_warnings and prompt_install_dependencies
Proceed ==
  /\ phase = "page"
  /\ \E away \in BOOLEAN :
       LET missing == CheckDependencies \cup CannotFormat(away) IN
       /\ install_cmd' = InstallCmd(missing)
       /\ phase' = IF missing = {} THEN "warnings"
                   ELSE IF install_cmd' = <<>> THEN "page" ELSE "prompt"
  /\ changed' = FALSE /\ UNCHANGED <<distro, mode, tools, aside>>

\* on_install_deps_response
Answer ==
  /\ phase = "prompt" /\ phase' \in {"page", "install"}
  /\ UNCHANGED <<distro, mode, tools, aside, install_cmd, changed>>

\* install_deps_worker: a package puts all of its contents where the writers
\* look, a command that fails some of it, or half of it; after the last command
\* on_deps_installed_success goes on to the warnings.
RunCommand ==
  /\ phase = "install"
  /\ tools' = tools \cup Provides(Head(install_cmd)) /\ aside' = aside \ tools'
  /\ install_cmd' = Tail(install_cmd)
  /\ phase' = IF install_cmd' = <<>> THEN "warnings" ELSE "install"
  /\ UNCHANGED <<distro, mode, changed>>
CommandFails ==
  /\ phase = "install" /\ phase' = "page"
  /\ \E some, half \in SUBSET Provides(Head(install_cmd)) :
       tools' = tools \cup some /\ aside' = (aside \cup (half \ Mkfs)) \ tools'
  /\ UNCHANGED <<distro, mode, install_cmd, changed>>

\* The pages stay usable while an install runs.
ChooseMode ==
  /\ phase \in {"page", "install"} /\ mode' \in Modes \ {mode}
  /\ changed' = (phase = "install" \/ changed)
  /\ UNCHANGED <<phase, distro, tools, aside, install_cmd>>

\* on_warn1_response, on_warn2_response
Warnings ==
  /\ phase = "warnings" /\ phase' \in {"page", "writing"}
  /\ UNCHANGED <<distro, mode, tools, aside, install_cmd, changed>>

Next == Proceed \/ Answer \/ RunCommand \/ CommandFails \/ ChooseMode \/ Warnings

Spec == Init /\ [][Next]_depsVars

-----------------------------------------------------------------------------
\* _have_bios_grub: what is missing must show before the drive is wiped, also
\* when the tools come from a package that has only a part of them.  A writer
\* then misses nothing but what the check found where no writer looks, and never
\* an mkfs.  A mode that is chosen while an install runs is not checked again.
ToolsBeforeWipe ==
  phase = "writing" /\ ~changed => Needs(mode) \subseteq Found /\ Needs(mode) \cap Mkfs \subseteq tools
=============================================================================
