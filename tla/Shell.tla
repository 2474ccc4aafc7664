------------------------------- MODULE Shell -------------------------------
(***************************************************************************)
(* The shell of shell.rs over the filesystem of fs.rs: its commands, and   *)
(* its editor.  One thread runs it, a key at a time, and a command holds   *)
(* the filesystem's lock, so each command and each key is one action.      *)
(*                                                                         *)
(* The line being typed is not here: a command arrives with its argument   *)
(* when Enter ends it, without the segments "." and "" that mean nothing;  *)
(* of the arguments that end in a slash there is "/" alone.  The text in   *)
(* the editor is a member of Contents, and the keys that change it are one *)
(* action.  The code's third mode, HelpViewer, is never entered.           *)
(***************************************************************************)
EXTENDS FileNames, Naturals, Sequences, FiniteSets, SequencesExt

\* A name is a record [stem, ext].
CONSTANTS NoExt,        \* the extension of a name without a dot
          TextExt,      \* the extension normalisation adds
          Allowed,      \* the extensions create and edit accept
          Up,           \* the segment ".."
          Git,          \* the name "git"
          Args          \* the arguments of commands: records [absolute, items],
                        \* the items being the segments between the slashes

ASSUME ExtensionAssumption == TextExt \in Allowed /\ NoExt \notin Allowed

ASSUME ArgsAssumption ==
  \A arg \in Args : /\ arg = [absolute |-> arg.absolute, items |-> arg.items]
                    /\ arg.absolute \in BOOLEAN
                    /\ arg.items \in Seq(Names \cup {Up})

\* The names are closed under what the commands make of them.
ASSUME NameAssumption ==
  /\ Up \notin Names
  /\ Git \in Names
  /\ [stem |-> "", ext |-> TextExt] \in Names
  /\ \A name \in Names : name.ext = NoExt => [name EXCEPT !.ext = TextExt] \in Names

VARIABLES tree,             \* FS
          mode, cwd, editor_filename, editor_buffer, save_pending,
          reply,            \* what the last key or command told the user
          opened, armed     \* history: the path open in the editor, and
                            \* whether Ctrl+S was pressed since

editor == <<editor_filename, editor_buffer, save_pending>>
history == <<opened, armed>>
vars == <<tree, mode, cwd, editor, reply, history>>

Files == INSTANCE FileTree

\* No file is being edited: editor_filename is the empty string.
NoFile == [absolute |-> FALSE, items |-> <<>>]

Replies == {"none", "done", "error", "returned", "cloned", "pending", "saved", "left"}

TypeOK ==
  /\ Files!TypeOK
  /\ mode \in {"command", "editor"}
  /\ cwd \in Seq(Names)
  /\ editor_filename.absolute \in BOOLEAN
  /\ editor_filename.items \in Seq(Names \cup {Up})
  /\ editor_buffer \in Contents
  /\ save_pending \in BOOLEAN
  /\ reply \in Replies
  /\ opened \in Seq(Names)
  /\ armed \in BOOLEAN

-----------------------------------------------------------------------------
\* Slip: at the root, ".." is kept.
Walk_AboveRoot(segments, item) ==
  IF item # Up \/ segments = <<>> THEN Append(segments, item) ELSE Front(segments)

Walk(segments, item) ==
  IF item # Up THEN Append(segments, item)
  ELSE IF segments = <<>> THEN <<>> ELSE Front(segments)

\* Slip: a slash at the front makes no difference.
ResolvePath_Relative(dir, arg) == FoldLeft(Walk, dir, arg.items)

ResolvePath(dir, arg) ==
  FoldLeft(Walk, IF arg.absolute THEN <<>> ELSE dir, arg.items)

\* normalize_and_validate_filename looks at what follows the last slash.
\* Of "/" that is the empty name, and of a path that ends in ".." it has an
\* empty extension, which is not allowed.
Accepted(arg) ==
  arg.items # <<>> =>
    Last(arg.items) # Up /\ Last(arg.items).ext \in Allowed \cup {NoExt}

WithText(name) == [name EXCEPT !.ext = TextExt]

Normalize(arg) ==
  IF arg.items = <<>>
  THEN [arg EXCEPT !.items = <<[stem |-> "", ext |-> TextExt]>>]
  ELSE IF Last(arg.items).ext = NoExt
       THEN [arg EXCEPT !.items = Append(Front(@), WithText(Last(@)))]
       ELSE arg

-----------------------------------------------------------------------------
Init ==
  /\ Files!Init
  /\ mode = "command"
  /\ cwd = <<>>
  /\ editor_filename = NoFile
  /\ editor_buffer = Empty
  /\ save_pending = FALSE
  /\ reply = "none"
  /\ opened = <<>>
  /\ armed = FALSE

Tell(message) ==
  reply' = message /\ UNCHANGED <<mode, cwd, editor, history>>

\* A command that does op to the tree, or says why it cannot.
Try(possible, op) ==
  \/ possible /\ op /\ Tell("done")
  \/ ~possible /\ UNCHANGED tree /\ Tell("error")

\* enter and cd; cd without an argument is cd "..".
ChangeDirectory(arg) ==
  LET target == ResolvePath(cwd, arg)
  IN /\ IF Files!IsDirectory(target)
        THEN cwd' = target /\ reply' = "done"
        ELSE UNCHANGED cwd /\ reply' = "error"
     /\ UNCHANGED <<tree, mode, editor, history>>

\* back, leave and up do not ask the filesystem.
Back ==
  /\ IF cwd # <<>>
     THEN cwd' = Front(cwd) /\ reply' = "returned"
     ELSE UNCHANGED cwd /\ reply' = "error"
  /\ UNCHANGED <<tree, mode, editor, history>>

MakeFolder(arg) ==
  LET p == ResolvePath(cwd, arg)
  IN Try(p # <<>> /\ Files!MayCreate(p), Files!CreateDirectory(p))

Create(arg) ==
  LET p == ResolvePath(cwd, Normalize(arg))
  IN Try(Accepted(arg) /\ Files!MayCreate(p), Files!CreateFile(p))

\* write takes its argument as it is, without normalising the name.
Write(arg, text) ==
  LET p == ResolvePath(cwd, arg)
  IN Try(p # <<>> /\ Files!MayWrite(p), Files!WriteFile(p, text))

Delete(arg) ==
  LET p == ResolvePath(cwd, arg)
  IN Try(p # <<>> /\ Files!MayDelete(p), Files!DeleteNode(p))

\* Slip: the directory is put there whatever was there.
GitClone_Anew == Files!Put(<<Git>>, Directory) /\ Tell("cloned")

\* git clone ignores the answer of create_directory and reports success.
GitClone ==
  /\ \/ Files!CreateDirectory(<<Git>>)
     \/ ~Files!MayCreate(<<Git>>) /\ UNCHANGED tree
  /\ Tell("cloned")

\* edit makes the file if it can and there is none, and opens the editor
\* either way, with the empty text if nothing can be read.
Exists(p) == Files!IsDirectory(Files!Parent(p)) /\ Files!IsFile(p)

\* Slip: the file is left to be made by the save.
Ensure_Later(p) == UNCHANGED tree

Ensure(p) ==
  \/ ~Exists(p) /\ Files!CreateFile(p)
  \/ (Exists(p) \/ ~Files!MayCreate(p)) /\ UNCHANGED tree

\* Slip: a flag left over from an earlier session stays.
Disarm_Nothing == UNCHANGED save_pending /\ armed' = FALSE
Disarm == save_pending' = FALSE /\ armed' = FALSE

Edit(arg) ==
  LET p == ResolvePath(cwd, Normalize(arg))
  IN \/ /\ Accepted(arg)
        /\ Ensure(p)
        /\ editor_filename' = Normalize(arg)
        /\ editor_buffer' = IF Exists(p) THEN tree[p] ELSE Empty
        /\ mode' = "editor"
        /\ Disarm
        /\ opened' = p
        /\ reply' = "none"
        /\ UNCHANGED cwd
     \/ ~Accepted(arg) /\ UNCHANGED tree /\ Tell("error")

Command ==
  /\ mode = "command"
  /\ \/ Back
     \/ GitClone
     \/ \E arg \in Args :
          \/ ChangeDirectory(arg)
          \/ MakeFolder(arg)
          \/ Create(arg)
          \/ \E text \in Contents : Write(arg, text)
          \/ Delete(arg)
          \/ Edit(arg)

-----------------------------------------------------------------------------
\* Characters, Space, Backspace, and Enter on a line that is no command.
EditText ==
  /\ \E text \in Contents \ {editor_buffer} : editor_buffer' = text
  /\ reply' = "none"
  /\ UNCHANGED <<tree, mode, cwd, editor_filename, save_pending, history>>

CtrlS ==
  /\ save_pending' = TRUE
  /\ armed' = TRUE
  /\ reply' = "pending"
  /\ UNCHANGED <<tree, mode, cwd, editor_filename, editor_buffer, opened>>

\* Slip: the file's name is taken to start at the root.
SavePath_FromRoot == ResolvePath(<<>>, editor_filename)

\* The file's path is resolved again when it is saved.
SavePath == ResolvePath(cwd, editor_filename)

Save ==
  LET p == SavePath
  IN \/ /\ Files!MayWrite(p)
        /\ Files!WriteFile(p, editor_buffer)
        /\ reply' = "saved"
     \/ /\ ~Files!MayWrite(p)
        /\ UNCHANGED tree
        /\ reply' = "error"

Close ==
  /\ mode' = "command"
  /\ editor_buffer' = Empty
  /\ editor_filename' = NoFile
  /\ opened' = <<>>
  /\ armed' = FALSE
  /\ UNCHANGED cwd

CtrlK ==
  \/ save_pending /\ Save /\ Close /\ save_pending' = FALSE
  \/ ~save_pending /\ UNCHANGED tree /\ Tell("error")

\* Enter after a last line ":wq" or ":q"; the text is what stands before it.
EnterWriteQuit == Save /\ Close /\ UNCHANGED save_pending

EnterQuit ==
  Close /\ reply' = "left" /\ UNCHANGED <<tree, save_pending>>

Escape ==
  Close /\ save_pending' = FALSE /\ reply' = "left" /\ UNCHANGED tree

EditorKey ==
  /\ mode = "editor"
  /\ EditText \/ CtrlS \/ CtrlK \/ EnterWriteQuit \/ EnterQuit \/ Escape

Next == Command \/ EditorKey

Spec == Init /\ [][Next]_vars

-----------------------------------------------------------------------------
\* All that the commands and the editor do to the filesystem are the
\* operations of fs.rs, on one path at a time: a command line changes no
\* file but the one it names.
TreeRefinement == Files!Spec

\* The item at place i of a path is still there at the end if from there
\* on the path never goes up more often than it goes down again.
Survives(items, i) ==
  /\ items[i] # Up
  /\ \A j \in i + 1 .. Len(items) :
       LET ups == {k \in i + 1 .. j : items[k] = Up}
       IN 2 * Cardinality(ups) <= j - i

\* resolve_path gives the segments that a reader of the path would leave
\* standing, for every argument and directory: ".." takes away the nearest
\* segment that is left, crosses from the argument into the directory, and
\* stops at the root.
ResolveIsLexical ==
  \A arg \in Args :
    LET items == (IF arg.absolute THEN <<>> ELSE cwd) \o arg.items
        kept == {i \in 1 .. Len(items) : Survives(items, i)}
    IN ResolvePath(cwd, arg) = [i \in 1 .. Cardinality(kept) |->
          items[CHOOSE k \in kept : Cardinality({j \in kept : j <= k}) = i]]

\* Ctrl+K saves in this session of the editor only if Ctrl+S was pressed in
\* this session: the flag never survives from an earlier one, though :wq
\* and :q leave it set.
ArmedInThisSession == mode = "editor" => (save_pending <=> armed)

\* What a key in the editor does to the filesystem is to put the text on
\* the screen into the file that was opened, and nothing elsewhere: the
\* path that is resolved again at the save leads where it led at the start.
SavesWhatWasOpened ==
  [][mode = "editor" /\ (tree' # tree \/ reply' = "saved") =>
       /\ opened \in DOMAIN tree' /\ tree'[opened] = editor_buffer
       /\ \A p \in DOMAIN tree \cup DOMAIN tree' :
            p # opened => p \in DOMAIN tree /\ p \in DOMAIN tree' /\ tree'[p] = tree[p]]_vars

\* A file that could be opened can be saved: where the editor started in an
\* existing directory, on a name that is no directory, the file is there
\* until the editor is left.
OpenedFileStays ==
  mode = "editor" /\ Files!IsDirectory(Files!Parent(opened)) /\ ~Files!IsDirectory(opened)
    => Files!IsFile(opened)
=============================================================================
