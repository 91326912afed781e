------------------------------- MODULE Planner -------------------------------
(* Where plans come from (agents/builtins/planner.py): PlannerAgent hands    *)
(* over the tasks of the model's answer, and when there is no model, the     *)
(* call fails or the answer is no list of tasks, a plan of its own, chosen   *)
(* by the words of the goal.  Its plans name agents, tools, arguments,       *)
(* applications and folders that are kept in seven other places.             *)
EXTENDS PlanValidator

RegisteredAgents ==
  {"agent.planner", "agent.research", "agent.reasoning", "agent.coding", "agent.security",
   "agent.testing", "agent.review", "agent.verifier", "agent.recovery", "agent.synthesis"}

BuiltinTools ==
  {"office.create_docx", "office.create_xlsx", "office.create_pptx", "office.create_pdf",
   "browser.open", "browser.search", "youtube.search_and_play",
   "app.launch", "app.focus", "app.close",
   "file.open_directory", "file.list_files", "file.create_text_file"}

OSTools ==
  {"os.screen.capture", "os.screen.monitors", "os.screen.info", "os.mouse.move",
   "os.mouse.click", "os.mouse.double_click", "os.mouse.right_click", "os.mouse.scroll",
   "os.keyboard.type", "os.keyboard.press", "os.keyboard.hotkey", "os.window.list",
   "os.window.focus", "os.window.minimize", "os.window.maximize", "os.window.restore",
   "os.clipboard.read", "os.clipboard.write", "os.clipboard.clear", "os.system.info"}

(* CodingAgent.allowed_tools: what is not in it is skipped without a word.   *)
CodingTools ==
  {"office.create_docx", "office.create_xlsx", "office.create_pptx", "office.create_pdf",
   "app.launch", "app.focus", "app.close", "browser.open", "browser.search",
   "youtube.search_and_play", "file.open_directory", "file.list_files",
   "file.create_text_file", "os.window.list", "os.window.focus", "os.window.minimize",
   "os.window.maximize", "os.window.restore", "os.window.close", "os.screen.capture",
   "os.screen.monitors", "os.screen.info", "os.clipboard.read", "os.clipboard.write",
   "os.clipboard.clear", "os.system.info"}

(* The parameters without a default, of the tools that a plan here uses.     *)
RequiredArguments(tool) ==
  CASE tool \in {"youtube.search_and_play", "browser.search"} -> {"query"}
    [] tool = "file.open_directory" -> {"directory_name"}
    [] tool = "app.launch" -> {"app_name"}
    [] tool \in {"office.create_docx", "office.create_pdf"} -> {"filename", "title", "sections"}
    [] tool = "office.create_pptx" -> {"filename", "title", "slides"}
    [] tool = "office.create_xlsx" -> {"filename", "sheets"}
    [] OTHER -> {}

(* CodingAgent._build_tool_arguments, for a task that gives none.            *)
BuiltArguments(tool) ==
  CASE tool \in {"office.create_docx", "office.create_pdf"} -> {"filename", "title", "sections"}
    [] tool = "office.create_pptx" -> {"filename", "title", "subtitle", "slides"}
    [] tool = "office.create_xlsx" -> {"filename", "sheets"}
    [] OTHER -> {}

(* What app.launch knows: the applications and the names they answer to.     *)
Applications ==
  [chrome     |-> {"chrome", "google chrome", "browser"},
   edge       |-> {"edge", "msedge", "microsoft edge"},
   code       |-> {"code", "vscode", "visual studio code", "vs code"},
   calculator |-> {"calculator", "calc"},
   notepad    |-> {"notepad", "text editor"},
   explorer   |-> {"explorer", "file explorer", "files"},
   settings   |-> {"settings", "windows settings"},
   paint      |-> {"paint", "mspaint"},
   taskmgr    |-> {"task manager", "taskmgr"},
   terminal   |-> {"terminal", "powershell", "windows terminal", "wt"}]

(* strip().lower(), on the names a plan uses.                                *)
Mutant_Normalized(name) == name

Normalized(name) ==
  CASE name = "Calculator" -> "calculator"
    [] name = "Notepad" -> "notepad"
    [] name = "VS Code" -> "vs code"
    [] name = "Chrome" -> "chrome"
    [] name = "Edge" -> "edge"
    [] name = "Settings" -> "settings"
    [] name = "File Explorer" -> "file explorer"
    [] name = "Paint" -> "paint"
    [] name = "PowerShell" -> "powershell"
    [] name = "Task Manager" -> "task manager"
    [] OTHER -> name

(* _resolve_app: the applications whose id or alias the name is.             *)
ResolvedApps(name) ==
  {app \in DOMAIN Applications : Normalized(name) \in Applications[app] \cup {app}}

(* The folders file.open_directory finds whatever there is in the home       *)
(* directory.                                                                *)
KnownDirectories ==
  {"downloads", "documents", "desktop", "pictures", "music", "videos", "home"}
    \cup {"workspace", "project"}

-----------------------------------------------------------------------------
(* A task of a plan made here; `given` maps its tool's arguments to values,  *)
(* of which only the names of applications and folders matter.               *)
Step(name, agent, after, tools, given) ==
  [name |-> name, agent |-> agent, after |-> after, tools |-> tools, given |-> given]

(* One tool with its arguments, then a look at what came of it.              *)
UseAndVerify(name, tool, given) ==
  <<Step(name, "agent.coding", <<>>, {tool}, given),
    Step("task_verify", "agent.verifier", <<name>>, {}, <<>>)>>

YouTube == UseAndVerify("task_youtube", "youtube.search_and_play", [query |-> "goal"])
WebSearch == UseAndVerify("task_search", "browser.search", [query |-> "goal"])
Screenshot == UseAndVerify("task_screen_capture", "os.screen.capture", <<>>)
WindowList == <<Step("task_window_list", "agent.coding", <<>>, {"os.window.list"}, <<>>)>>

OpenFolder(folder) ==
  UseAndVerify("task_open_directory", "file.open_directory", [directory_name |-> folder])

LaunchApp(app) == UseAndVerify("task_launch_app", "app.launch", [app_name |-> app])

(* The folders and the applications that the words of a goal can stand for.  *)
GoalFolders == {"downloads", "documents", "desktop", "workspace"}

GoalApps == {"Calculator", "Notepad", "VS Code", "Chrome", "Edge", "Settings",
             "File Explorer", "Paint", "PowerShell", "Task Manager"}

(* Research, the document from it, and a look at the document.               *)
ResearchAndWrite(name, tool) ==
  <<Step("task_research", "agent.research", <<>>, {}, <<>>),
    Step(name, "agent.coding", <<"task_research">>, {tool},
         [a \in BuiltArguments(tool) |-> "goal"]),
    Step("task_verify", "agent.verifier", <<name>>, {}, <<>>)>>

Presentation == ResearchAndWrite("task_generate_pptx", "office.create_pptx")
Spreadsheet == ResearchAndWrite("task_generate_xlsx", "office.create_xlsx")
WordDocument == ResearchAndWrite("task_generate_docx", "office.create_docx")
PdfDocument == ResearchAndWrite("task_generate_pdf", "office.create_pdf")

(* A task is renamed where it is defined and not where it is needed.         *)
Mutant_General ==
  <<Step("task_analyze", "agent.reasoning", <<>>, {}, <<>>),
    Step("task_review", "agent.review", <<"task_analysis">>, {}, <<>>)>>

General ==
  <<Step("task_analyze", "agent.reasoning", <<>>, {}, <<>>),
    Step("task_review", "agent.review", <<"task_analyze">>, {}, <<>>)>>

(* _deterministic_decompose, for every goal there may be.                    *)
Deterministic ==
  {YouTube, WebSearch, Screenshot, WindowList,
   Presentation, Spreadsheet, WordDocument, PdfDocument, General}
    \cup {OpenFolder(folder) : folder \in GoalFolders}
    \cup {LaunchApp(app) : app \in GoalApps}

-----------------------------------------------------------------------------
(* As the validator sees such a plan: names by their position, one that is   *)
(* no task's by the position after the last, and agents and tools by what    *)
(* the registries say of them.                                               *)
AllIds == CHOOSE s \in [1..Cardinality(TaskIds) -> TaskIds] :
            \A i, j \in DOMAIN s : i # j => s[i] # s[j]

Position(steps, name) ==
  LET at == {i \in DOMAIN steps : steps[i].name = name} IN
    IF at = {} THEN Len(steps) + 1 ELSE CHOOSE i \in at : TRUE

AsPlan(steps) ==
  [i \in DOMAIN steps |->
    [id |-> AllIds[Position(steps, steps[i].name)],
     dependencies |-> [k \in DOMAIN steps[i].after |-> AllIds[Position(steps, steps[i].after[k])]],
     agent |-> IF steps[i].agent \in RegisteredAgents THEN "enabled" ELSE "unregistered",
     tools |-> {IF t \in BuiltinTools \cup OSTools THEN "enabled" ELSE "unregistered" :
                 t \in steps[i].tools}]]

FallbackPlans == {AsPlan(steps) : steps \in Deterministic}

(* Its tools are among those its agent executes, and get every argument they *)
(* cannot do without; an application named by a plan is one that app.launch  *)
(* knows, and no two answer to the name; a folder is one that is always      *)
(* found.                                                                    *)
CanBeCarriedOut(steps) ==
  \A i \in DOMAIN steps : \A t \in steps[i].tools :
    /\ steps[i].agent = "agent.coding" => t \in CodingTools
    /\ RequiredArguments(t) \subseteq DOMAIN steps[i].given
    /\ t = "app.launch" => Cardinality(ResolvedApps(steps[i].given.app_name)) = 1
    /\ t = "file.open_directory" => steps[i].given.directory_name \in KnownDirectories

(* The plan the planner makes when all else fails does not fail: it is       *)
(* accepted and can be carried out.                                          *)
FallbackIsAccepted ==
  \A steps \in Deterministic : plan = AsPlan(steps) =>
    verdict \notin {"malformed", "circular"} /\ CanBeCarriedOut(steps)
=============================================================================
