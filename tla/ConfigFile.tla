-------------------------------- MODULE ConfigFile --------------------------------
(***************************************************************************)
(* config.yml from one start of the program to the next: main.go writes it  *)
(* when there is none, LoadConfig reads it, completes it and restarts, and  *)
(* the web UI replaces or resets it and restarts.                           *)
(*                                                                         *)
(* LoadConfig uses the file of the working directory, the web UI the one    *)
(* beside the executable.  A restart is a script that outlives the process: *)
(* on Windows it goes to the executable's directory and starts it there, on *)
(* Unix it starts "." followed by the executable's absolute path.           *)
(***************************************************************************)
EXTENDS ConfigText

CONSTANTS
    UserFiles,  \* files of users, and what they save in the web UI
    Dirs,       \* directories
    Root,       \* the one that is "/"
    Procs,      \* how many processes there can be at a time
    Changes,    \* changes asked of the web UI
    MaxFaults   \* a bound on kills and failed writes

VARIABLES
    place,    \* the system, and the executable's directory
    file,     \* file[d]: config.yml of directory d
    stage,    \* where a process is in main
    dir,      \* its working directory
    lacking,  \* keys it still has to append
    scripts,  \* scripts[d]: restart scripts under way in directory d
    rpc,      \* where a change is
    wanted,   \* what it does and the text it writes
    fd,       \* the file a process or a change has opened
    faults,
    spoiled   \* history: a file may be bad, see Spoil

procVars == <<stage, dir, lacking>>
webVars == <<rpc, wanted>>
configVars == <<place, file, procVars, scripts, webVars, fd, faults, spoiled>>

\* A process or a change that starts takes the first name that is free.
Free(p) == stage[p] = "off" /\ p = CHOOSE q \in Procs : stage[q] = "off"
Unused(r) == rpc[r] = "none" /\ r = CHOOSE q \in Changes : rpc[q] = "none"

Nothing == [what |-> "none", text |-> <<>>]
NoFile == [there |-> FALSE, inode |-> 0, lines |-> <<>>]
At(p, l) == stage[p] = l
Goes(p, l) == stage' = [stage EXCEPT ![p] = l]
Turns(r, l) == rpc' = [rpc EXCEPT ![r] = l]
UnderWay == {r \in Changes : rpc[r] \notin {"none", "done"}}
Serving == {p \in Procs : At(p, "serving")}
Mine(p) == file[dir[p]]

\* A process that ends forgets all, and takes the goroutines of the web UI with it.
Ends(p) ==
    /\ Goes(p, "off")
    /\ dir' = [dir EXCEPT ![p] = Root]
    /\ lacking' = [lacking EXCEPT ![p] = <<>>]
    /\ LET gone == IF At(p, "serving") THEN UnderWay ELSE {}
       IN  /\ rpc' = [r \in Changes |-> IF r \in gone THEN "done" ELSE rpc[r]]
           /\ wanted' = [r \in Changes |-> IF r \in gone THEN Nothing ELSE wanted[r]]
           /\ fd' = [w \in Procs \cup Changes |-> IF w \in gone \cup {p} THEN 0 ELSE fd[w]]

\* A file that works: the keys it gives are read, and keys appended to it too.
Sound(lines) ==
    /\ Legal(lines) /\ "version" \in KeysIn(lines) /\ Given(lines) # {}
    /\ SectionOf(lines, Len(lines) + 1) = "settings"

ASSUME FilesAssumption ==
    /\ Template \in Seq(Line) /\ Sound(Template) /\ UserFiles \subseteq Seq(Line)
    /\ Root \in Dirs /\ Procs \cap Changes = {} /\ MaxFaults \in Nat

\* What may leave a bad file: a user's text, a write that is cut off and two
\* changes at a time.
Spoil(now) == spoiled' = (spoiled \/ now)

ConfigInit ==
    /\ place \in [system : {"windows", "unix"}, exe : Dirs]
    /\ file \in [Dirs -> {NoFile} \cup {[there |-> TRUE, inode |-> 1, lines |-> u] : u \in UserFiles}]
    /\ stage = [p \in Procs |-> "off"]
    /\ dir = [p \in Procs |-> Root]
    /\ lacking = [p \in Procs |-> <<>>]
    /\ scripts = [d \in Dirs |-> 0]
    /\ rpc = [r \in Changes |-> "none"]
    /\ wanted = [r \in Changes |-> Nothing]
    /\ fd = [w \in Procs \cup Changes |-> 0]
    /\ faults = 0
    /\ spoiled = (\E d \in Dirs : file[d].there /\ ~Sound(file[d].lines))
----------------------------------------------------------------------------------
\* os.WriteFile: the file is made or cut to nothing, and then written.
Opened(w, d) ==
    /\ file' = [file EXCEPT ![d] =
           [there |-> TRUE, inode |-> IF @.there THEN @.inode ELSE @.inode + 1, lines |-> <<>>]]
    /\ fd' = [fd EXCEPT ![w] = file'[d].inode]

\* A write reaches the directory's file only if it is still the one opened; what
\* another writer left beyond its end stays.
PutInto(w, d, lines) ==
    file' = IF file[d].there /\ file[d].inode = fd[w]
            THEN [file EXCEPT ![d].lines = lines \o SubSeq(@, Len(lines) + 1, Len(@))]
            ELSE file
----------------------------------------------------------------------------------
\* Slips the properties must notice.  Lines written at the start of the file, over
\* what is there:
AppendLine_AtStart(p) ==
    /\ At(p, "appending") /\ lacking[p] # <<>>
    /\ PutInto(p, dir[p], <<TemplateLine(Head(lacking[p]))>>)
    /\ lacking' = [lacking EXCEPT ![p] = Tail(@)]
    /\ UNCHANGED <<place, stage, dir, scripts, webVars, fd, faults, spoiled>>

\* lines that never get into the file:
AppendLine_Lost(p) ==
    /\ At(p, "appending") /\ lacking[p] # <<>>
    /\ lacking' = [lacking EXCEPT ![p] = Tail(@)]
    /\ UNCHANGED <<place, file, stage, dir, scripts, webVars, fd, faults, spoiled>>
----------------------------------------------------------------------------------
\* The user starts the program when nothing of it runs.
Launch(p, d) ==
    /\ Free(p) /\ \A q \in Procs : At(q, "off")
    /\ \A e \in Dirs : scripts[e] = 0
    /\ Goes(p, "main")
    /\ dir' = [dir EXCEPT ![p] = d]
    /\ UNCHANGED <<place, file, lacking, scripts, webVars, fd, faults, spoiled>>

\* main: os.Stat.
Main(p) ==
    /\ At(p, "main")
    /\ Goes(p, IF Mine(p).there THEN "load" ELSE "template")
    /\ UNCHANGED <<place, file, dir, lacking, scripts, webVars, fd, faults, spoiled>>

\* main: the template is written, and the program waits for Enter and ends.
TemplateOpen(p) ==
    /\ At(p, "template")
    /\ Opened(p, dir[p])
    /\ Goes(p, "writing")
    /\ UNCHANGED <<place, dir, lacking, scripts, webVars, faults, spoiled>>

TemplateWrite(p) ==
    /\ At(p, "writing")
    /\ PutInto(p, dir[p], Template)
    /\ Ends(p)
    /\ UNCHANGED <<place, scripts, faults, spoiled>>

\* LoadConfig reads the file; when that fails main logs it and goes on with no
\* configuration, which ends the program.
Load(p) ==
    /\ At(p, "load")
    /\ IF Mine(p).there /\ Legal(Mine(p).lines)
       THEN /\ Goes(p, "compare")
            /\ UNCHANGED <<dir, lacking, webVars, fd>>
       ELSE Ends(p)
    /\ UNCHANGED <<place, file, scripts, faults, spoiled>>

\* ensureConfigComplete reads the file again.  The missing keys are a map, so
\* their order is any.
Compare(p) ==
    /\ At(p, "compare")
    /\ IF Mine(p).there /\ Legal(Mine(p).lines)
       THEN /\ \E keys \in SetToSeqs(Missing(Mine(p).lines)) : lacking' = [lacking EXCEPT ![p] = keys]
            /\ Goes(p, IF Missing(Mine(p).lines) = {} THEN "loaded" ELSE "append")
            /\ UNCHANGED <<dir, webVars, fd>>
       ELSE Ends(p)
    /\ UNCHANGED <<place, file, scripts, faults, spoiled>>

\* appendToConfigFile opens the file, which must be there, and adds line by line.
AppendOpen(p) ==
    /\ At(p, "append")
    /\ IF Mine(p).there
       THEN /\ fd' = [fd EXCEPT ![p] = Mine(p).inode] /\ Goes(p, "appending")
            /\ UNCHANGED <<dir, lacking, webVars>>
       ELSE Ends(p)
    /\ UNCHANGED <<place, file, scripts, faults, spoiled>>

AppendLine(p) ==
    /\ At(p, "appending") /\ lacking[p] # <<>>
    /\ PutInto(p, dir[p], Append(Mine(p).lines, TemplateLine(Head(lacking[p]))))
    /\ lacking' = [lacking EXCEPT ![p] = Tail(@)]
    /\ UNCHANGED <<place, stage, dir, scripts, webVars, fd, faults, spoiled>>

\* RestartApplication: the script is started, then the process exits.
Script(d) == scripts' = [scripts EXCEPT ![d] = @ + 1]

RestartWithKeys(p) ==
    /\ At(p, "appending") /\ lacking[p] = <<>>
    /\ Script(dir[p])
    /\ Goes(p, "exit")
    /\ UNCHANGED <<place, file, dir, lacking, webVars, fd, faults, spoiled>>

\* The script.  From the root "." and a path are that path, from elsewhere they
\* are a file that is not there.
Starts(d) == place.system = "windows" \/ d = Root
StartsIn(d) == IF place.system = "windows" THEN place.exe ELSE d

RunScript(p, d) ==
    /\ scripts[d] > 0 /\ Free(p)
    /\ scripts' = [scripts EXCEPT ![d] = @ - 1]
    /\ IF Starts(d)
       THEN /\ Goes(p, "main")
            /\ dir' = [dir EXCEPT ![p] = StartsIn(d)]
       ELSE UNCHANGED <<stage, dir>>
    /\ UNCHANGED <<place, file, lacking, webVars, fd, faults, spoiled>>

Exit(p) ==
    /\ At(p, "exit") \/ (At(p, "serving") /\ \E r \in Changes : rpc[r] = "exit")
    /\ Ends(p)
    /\ Spoil(At(p, "serving") /\ \E r \in Changes : rpc[r] = "write")
    /\ UNCHANGED <<place, file, scripts, faults>>

\* The rest of main: Discord may refuse the program, and the database of ids is
\* waited for while another process has it (bolt locks its file).
Refused(p) ==
    /\ At(p, "loaded")
    /\ Ends(p)
    /\ UNCHANGED <<place, file, scripts, faults, spoiled>>

Serve(p) ==
    /\ At(p, "loaded") /\ Serving = {}
    /\ Goes(p, "serving")
    /\ UNCHANGED <<place, file, dir, lacking, scripts, webVars, fd, faults, spoiled>>

\* handlePatchConfig.
Patch(r, text) ==
    /\ Serving # {} /\ Unused(r)
    /\ wanted' = [wanted EXCEPT ![r] = [what |-> "patch", text |-> text]]
    /\ Turns(r, "open")
    /\ Spoil(~Sound(text) \/ UnderWay # {})
    /\ UNCHANGED <<place, file, procVars, scripts, fd, faults>>

\* handleDeleteConfig, DeleteConfig: the file is removed first.
Delete(r) ==
    /\ Serving # {} /\ Unused(r)
    /\ wanted' = [wanted EXCEPT ![r] = [what |-> "delete", text |-> Template]]
    /\ IF file[place.exe].there
       THEN file' = [file EXCEPT ![place.exe].there = FALSE] /\ Turns(r, "address")
       ELSE UNCHANGED file /\ Turns(r, "done")
    /\ Spoil(UnderWay # {})
    /\ UNCHANGED <<place, procVars, scripts, fd, faults>>

\* GetLocalIP finds an address for the template, or the reset ends here.
Address(r) ==
    /\ rpc[r] = "address"
    /\ \/ Turns(r, "open") /\ UNCHANGED wanted
       \/ Turns(r, "done") /\ wanted' = [wanted EXCEPT ![r] = Nothing]
    /\ UNCHANGED <<place, file, procVars, scripts, fd, faults, spoiled>>

ChangeOpen(r) ==
    /\ rpc[r] = "open"
    /\ Opened(r, place.exe)
    /\ Turns(r, "write")
    /\ UNCHANGED <<place, procVars, scripts, wanted, faults, spoiled>>

ChangeWrite(r) ==
    /\ rpc[r] = "write"
    /\ PutInto(r, place.exe, wanted[r].text)
    /\ Turns(r, "restart")
    /\ UNCHANGED <<place, procVars, scripts, wanted, fd, faults, spoiled>>

\* WriteYAMLToFile does not look at the error; DeleteConfig returns it.
ChangeWriteFails(r) ==
    /\ rpc[r] = "write" /\ faults < MaxFaults
    /\ Turns(r, IF wanted[r].what = "patch" THEN "restart" ELSE "done")
    /\ faults' = faults + 1
    /\ Spoil(TRUE)
    /\ UNCHANGED <<place, file, procVars, scripts, wanted, fd>>

ChangeRestart(r) ==
    /\ rpc[r] = "restart"
    /\ \E p \in Serving : Script(dir[p])
    /\ Turns(r, "exit")
    /\ UNCHANGED <<place, file, procVars, wanted, fd, faults, spoiled>>

\* The process is killed, or the machine goes down.
Kill(p) ==
    /\ ~At(p, "off") /\ faults < MaxFaults
    /\ faults' = faults + 1
    /\ Ends(p)
    /\ Spoil(At(p, "writing") \/ (At(p, "serving") /\ \E r \in Changes : rpc[r] = "write"))
    /\ UNCHANGED <<place, file, scripts>>

Step(p) ==
    \/ Main(p) \/ TemplateOpen(p) \/ TemplateWrite(p) \/ Load(p) \/ Compare(p)
    \/ AppendOpen(p) \/ AppendLine(p) \/ RestartWithKeys(p) \/ Exit(p)

Change(r) ==
    Address(r) \/ ChangeOpen(r) \/ ChangeWrite(r) \/ ChangeRestart(r)

ConfigNext ==
    \/ \E p \in Procs : Step(p) \/ Refused(p) \/ Serve(p) \/ Kill(p)
    \/ \E p \in Procs, d \in Dirs : Launch(p, d) \/ RunScript(p, d)
    \/ \E r \in Changes : Change(r) \/ ChangeWriteFails(r) \/ Delete(r)
    \/ \E r \in Changes, text \in UserFiles : Patch(r, text)

\* Goroutines and scripts are scheduled.  Nothing is assumed of users, of Discord
\* and of faults.
ConfigFairness ==
    /\ \A p \in Procs : WF_configVars(Step(p))
    /\ \A r \in Changes : WF_configVars(Change(r))
    /\ \A d \in Dirs : WF_configVars(\E p \in Procs : RunScript(p, d))
----------------------------------------------------------------------------------
\* Somebody has cut the file to nothing and has not written it yet.
BeingWritten(d) ==
    \/ \E p \in Procs : At(p, "writing") /\ dir[p] = d
    \/ place.exe = d /\ \E r \in Changes : rpc[r] = "write"

\* Starts that complete the file, kills between the lines of a completion, resets
\* and changes one after the other keep config.yml a file that can be read and
\* completed.
FilesSound ==
    ~spoiled => \A d \in Dirs : file[d].there /\ ~BeingWritten(d) => Sound(file[d].lines)

\* The program does not restart for ever, with whatever file it is started: it
\* comes to an end or past its configuration.
Settles ==
    []<>(/\ \A p \in Procs : stage[p] \in {"off", "loaded", "serving"}
         /\ \A d \in Dirs : scripts[d] = 0
         /\ UnderWay = {})
==================================================================================
