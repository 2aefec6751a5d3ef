---------------------------- MODULE CredentialFile ----------------------------
(***************************************************************************)
(* credentials.env as core/credentials.py leaves it on disk: what a parse  *)
(* of the whole file yields, name by name, and the two system calls every  *)
(* rewrite of it is made of.  There is no lock around a rewrite and the    *)
(* file is replaced in place, so the modules that use these operators keep *)
(* the parse, the truncation and the write as separate steps.              *)
(***************************************************************************)

CONSTANTS
    Key,         \* the values a caller may hand over, as they were typed
    LineBreak,   \* those of them that contain a line break
    NoKey,       \* no value under a name; a blank value reads the same
    Strip        \* what parsing a written value gives back

\* Parsing never invents a value, and what it returns parses to itself.
ASSUME CredentialAssumption ==
    /\ NoKey \notin Key
    /\ LineBreak \subseteq Key
    /\ Strip \in [Key -> Key \cup {NoKey}]
    /\ \A k \in Key : Strip[k] # NoKey => Strip[Strip[k]] = Strip[k]

VARIABLE file    \* the parsed content of credentials.env

\* The names of WizardCredential and WizardSetting.
Name == {"GENERATION_API_KEY", "EMBEDDINGS_API_KEY", "GMAIL_APP_PASSWORD",
         "GMAIL_ADDRESS"}

\* The values a parse may return, NoKey for a name it does not find.
Stored == {Strip[k] : k \in Key} \cup {NoKey}

Content == [Name -> Stored]

EmptyFile == [n \in Name |-> NoKey]

ApiKeyOf(capability) == IF capability = "generation" THEN "GENERATION_API_KEY"
                        ELSE "EMBEDDINGS_API_KEY"

\* Slip: only the name that is written is put back.
SlipReplaced(parsed, n, k) == [EmptyFile EXCEPT ![n] = Strip[k]]

\* The whole content a writer of value k under name n will put back, built from
\* the content it parsed.
Replaced(parsed, n, k) == [parsed EXCEPT ![n] = Strip[k]]

\* os.open(..., O_TRUNC): every credential is gone until the write lands.
Truncate == file' = EmptyFile

\* handle.write(body) from offset 0 of the writer's own descriptor.  Alone it
\* leaves exactly the body.  If another writer wrote since the truncation, whole
\* lines of its longer tail may remain below the body, where they win the parse.
WriteOver(body) ==
    \E tail \in SUBSET {n \in Name : file[n] # NoKey} :
        file' = [n \in Name |-> IF n \in tail THEN file[n] ELSE body[n]]
===============================================================================
