------------------------------ MODULE Settings ------------------------------
(***************************************************************************)
(* load_config, save_config and their callers (main.py): the settings are  *)
(* read when the program is loaded, kept in APP_CONFIG, and written in     *)
(* place whenever one of them changes.  The program may end in between, a  *)
(* write may be refused or run out of space, and the file may hold         *)
(* anything when the program starts.                                       *)
(***************************************************************************)
EXTENDS Naturals

CONSTANTS
  Themes, Langs,  \* what the dialog offers
  Bad             \* a value of another type or range, or none

VARIABLES
  phase,       \* "off", "loaded", "saving" or "dead" of a traceback
  APP_CONFIG,
  config_file, \* what it is, and its data when it holds a JSON object
  kept,        \* history: the settings that were last written whole, or found
  cut          \* history: a later write of them did not end

settingsVars == <<phase, APP_CONFIG, config_file, kept, cut>>

DEFAULT_CONFIG == [theme |-> 0, lang |-> "", verify |-> TRUE]
Configs == [theme : Themes, lang : Langs, verify : BOOLEAN]

\* Each value by itself, or its default.
Sanitised(data) ==
  [theme |-> IF data.theme = Bad THEN DEFAULT_CONFIG.theme ELSE data.theme,
   lang |-> IF data.lang = Bad THEN DEFAULT_CONFIG.lang ELSE data.lang,
   verify |-> IF data.verify = Bad THEN DEFAULT_CONFIG.verify ELSE data.verify]

\* No file, one that is no JSON, or no text, or no JSON object.
Broken == {[form |-> "none"], [form |-> "cut"], [form |-> "binary"], [form |-> "list"]}
Object(data) == [form |-> "object", data |-> data]

\* What another version, or another editor, left.
Init ==
  /\ phase = "off" /\ APP_CONFIG = DEFAULT_CONFIG /\ cut = FALSE
  /\ \/ config_file \in Broken /\ kept = DEFAULT_CONFIG
     \/ \E data \in [theme : Themes \cup {Bad}, lang : Langs \cup {Bad},
                    verify : {TRUE, FALSE, Bad}] :
          config_file = Object(data) /\ kept = Sanitised(data)

\* Mutant: only a file that cannot be opened is expected.
LoadUncaught ==
  /\ phase = "off"
  /\ phase' = IF config_file.form \in {"cut", "binary"} THEN "dead" ELSE "loaded"
  /\ APP_CONFIG' = IF config_file \in Broken THEN DEFAULT_CONFIG ELSE Sanitised(config_file.data)
  /\ UNCHANGED <<config_file, kept, cut>>

\* load_config, at import.
LoadConfig ==
  /\ phase = "off" /\ phase' = "loaded"
  /\ APP_CONFIG' = IF config_file \in Broken THEN DEFAULT_CONFIG ELSE Sanitised(config_file.data)
  /\ UNCHANGED <<config_file, kept, cut>>

\* save_config opens the file, which empties it, unless that is refused.
Save ==
  \/ phase' = "loaded" /\ UNCHANGED <<config_file, kept, cut>>
  \/ phase' = "saving" /\ config_file' = [form |-> "cut"] /\ cut' = TRUE /\ UNCHANGED kept

\* sum_verify, on_theme_changed, on_lang_changed
SetVerify ==
  /\ phase = "loaded" /\ Save
  /\ APP_CONFIG' = [APP_CONFIG EXCEPT !.verify = ~@]
SetTheme ==
  /\ phase = "loaded" /\ Save
  /\ \E idx \in Themes \ {APP_CONFIG.theme} : APP_CONFIG' = [APP_CONFIG EXCEPT !.theme = idx]
SetLang ==
  /\ phase = "loaded" /\ Save
  /\ \E new_lang \in Langs \ {APP_CONFIG.lang, ""} :
       APP_CONFIG' = [APP_CONFIG EXCEPT !.lang = new_lang]

\* json.dump, whole or not.
WriteConfig ==
  /\ phase = "saving" /\ phase' = "loaded"
  /\ config_file' = Object(APP_CONFIG) /\ kept' = APP_CONFIG /\ cut' = FALSE
  /\ UNCHANGED APP_CONFIG
WriteFails ==
  /\ phase = "saving" /\ phase' = "loaded" /\ UNCHANGED <<APP_CONFIG, config_file, kept, cut>>

\* The program ends, in the middle of a save or not.
Ends ==
  /\ phase \in {"loaded", "saving"} /\ phase' = "off"
  /\ UNCHANGED <<APP_CONFIG, config_file, kept, cut>>

Next ==
  LoadConfig \/ SetVerify \/ SetTheme \/ SetLang \/ WriteConfig \/ WriteFails \/ Ends

Spec == Init /\ [][Next]_settingsVars

-----------------------------------------------------------------------------
\* "escaping it means the app dies with a traceback and no window": whatever a
\* save that was cut off or another program left, the next start has settings of
\* the right types, the ones that were last saved unless a later save was cut.
Survives ==
  /\ phase' # "dead"
  /\ phase = "off" /\ phase' = "loaded" =>
       APP_CONFIG' = IF cut THEN DEFAULT_CONFIG ELSE kept
=============================================================================
