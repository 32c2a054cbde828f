---------------------------- MODULE PromptLibrary ----------------------------
(***************************************************************************)
(* The prompts of the agents (riv-agents, prompts.rs and agent.rs): the     *)
(* files embedded at build time, the library `new` makes of them, and the   *)
(* prompt `render` makes of an agent, the caller's variables and the        *)
(* sections, which it meets in the order of a HashMap.                      *)
(*                                                                         *)
(* A text is what it refers to: a section is the set of names its template  *)
(* mentions, a value says where it comes from and, for a rendered section,  *)
(* what each of those names stood for.                                      *)
(***************************************************************************)
EXTENDS Naturals, SequencesExt

CONSTANTS
  Roles,          \* the abbreviations, in upper case
  Fields,         \* the names an agent file fills: AgentEntry::SERDE_FIELDS
  SectionNames,   \* the file stems of the sections
  MaxAgentFiles   \* bound: agent files

VARIABLES
  agentFiles,  \* the files of prompts/agents, in the order of the directory
  promptSections, \* stem -> the names the section mentions, for the embedded ones
  templates,   \* the templates of prompts/templates; one that does not render is as good as none
  broken,      \* sections that do not render, templates that do not parse
  library,     \* role -> the file its entry was parsed from
  promptStage, \* "embedded", "built", "unusable", "loaded", "rendering", "rendered"
  agent,       \* the role whose prompt is rendered
  given,       \* the names the caller's variables set
  base,        \* the context before any section
  context      \* the context so far

promptVars ==
  <<agentFiles, promptSections, templates, broken, library, promptStage, agent, given, base, context>>

Names == Fields \cup SectionNames

\* A file of prompts/agents: an entry with its abbreviation, put in upper case;
\* markdown that is none (no frontmatter, a field or the abbreviation missing);
\* or a file that is not markdown.
AgentFile ==
  [kind : {"entry"}, role : Roles] \cup [kind : {"unreadable", "other"}, role : {""}]

OfCaller == [from |-> "caller", shows |-> <<>>]
OfAgent(r) == [from |-> "agent", shows |-> <<r>>]
Raw == [from |-> "section as written", shows |-> <<>>]

Value(ctx, n) == IF n \in DOMAIN ctx THEN ctx[n].from ELSE "nothing"

PromptInit ==
  /\ agentFiles = <<>> /\ promptSections = <<>> /\ templates = {} /\ broken = {}
  /\ library = <<>> /\ promptStage = "embedded"
  /\ agent = "" /\ given = {} /\ base = <<>> /\ context = <<>>

-----------------------------------------------------------------------------
(* Embedding: include_dir! takes the prompts of the checkout that is built. *)

\* One more agent file, while the crate is being built.
EmbedAgent ==
  /\ promptStage = "embedded" /\ Len(agentFiles) < MaxAgentFiles
  /\ \E f \in AgentFile : agentFiles' = Append(agentFiles, f)
  /\ UNCHANGED <<promptSections, templates, broken, library, promptStage, agent, given, base, context>>

\* Sections and templates, of which one may be broken.
EmbedSections ==
  /\ promptStage = "embedded" /\ promptStage' = "built"
  /\ \E names \in SUBSET SectionNames :
       /\ promptSections' \in [names -> SUBSET Names]
       /\ templates' \in {{}, {"judge"}, {"agent", "judge"}}
       /\ broken' \in {{}} \cup {{n} : n \in names \cup templates'}
  /\ UNCHANGED <<agentFiles, library, agent, given, base, context>>

-----------------------------------------------------------------------------
(* PromptLibrary::new.                                                     *)

\* AgentEntry::new: no frontmatter, or one that lacks a field, or no abbreviation.
Unreadable(f) == f.kind = "unreadable"

\* A later file of the same abbreviation, in any case, takes its place.
EntryOf(r) ==
  LET files == {i \in DOMAIN agentFiles : agentFiles[i].role = r}
  IN  CHOOSE i \in files : \A j \in files : j <= i

LoadedRoles == {f.role : f \in {g \in ToSet(agentFiles) : g.kind = "entry"}}

\* One unreadable file or one template that does not parse fails all of it.
Fails ==
  \/ LoadedRoles = {} \/ templates = {}
  \/ \E f \in ToSet(agentFiles) : Unreadable(f)
  \/ broken \cap templates # {}

\* main calls it before anything else and gives up when it fails; later calls
\* find the library set.
New ==
  /\ promptStage = "built"
  /\ \/ Fails /\ promptStage' = "unusable" /\ UNCHANGED library
     \/ /\ ~Fails
        /\ library' = [r \in LoadedRoles |-> EntryOf(r)]
        /\ promptStage' = "loaded"
  /\ UNCHANGED <<agentFiles, promptSections, templates, broken, agent, given, base, context>>

-----------------------------------------------------------------------------
(* PromptLibrary::render.                                                  *)

\* The caller's variables, then the agent's fields over them.
Render(r, vs) ==
  /\ promptStage = "loaded" /\ r \in DOMAIN library
  /\ LET ctx == [n \in vs \cup Fields |-> IF n \in Fields THEN OfAgent(r) ELSE OfCaller]
     IN  base' = ctx /\ context' = ctx
  /\ agent' = r /\ given' = vs /\ promptStage' = "rendering"
  /\ UNCHANGED <<agentFiles, promptSections, templates, broken, library>>

\* Mutant of Scope: a section sees the sections rendered before it.
GrowingScope == context

\* What a section may mention: the context cloned before the first of them.
Scope == base

\* A section is rendered unless its name is taken, whatever the others are; one
\* that does not render goes in as it was written.
Unrendered == {s \in DOMAIN promptSections : s \notin DOMAIN context}

RenderSection(s) ==
  /\ promptStage = "rendering" /\ s \in Unrendered
  /\ context' = [n \in DOMAIN context \cup {s} |->
       IF n # s THEN context[n]
       ELSE IF s \in broken THEN Raw
       ELSE [from |-> "section", shows |-> [m \in promptSections[s] |-> Value(Scope, m)]]]
  /\ UNCHANGED <<agentFiles, promptSections, templates, broken, library, promptStage, agent, given, base>>

\* The agent template gets the context; without the template the prompt is a
\* sentence that says so.
RenderTemplate ==
  /\ promptStage = "rendering" /\ Unrendered = {}
  /\ promptStage' = "rendered"
  /\ context' = IF "agent" \in templates THEN context ELSE <<>>
  /\ UNCHANGED <<agentFiles, promptSections, templates, broken, library, agent, given, base>>

PromptNext ==
  \/ EmbedAgent
  \/ EmbedSections
  \/ New
  \/ \E r \in Roles, vs \in SUBSET Names : Render(r, vs)
  \/ \E s \in SectionNames : RenderSection(s)
  \/ RenderTemplate

PromptSpec == PromptInit /\ [][PromptNext]_promptVars

-----------------------------------------------------------------------------
(* Properties.                                                             *)

PromptTypeOK ==
  /\ agentFiles \in Seq(AgentFile) /\ DOMAIN promptSections \subseteq SectionNames
  /\ templates \subseteq {"agent", "judge"} /\ DOMAIN library \subseteq Roles
  /\ broken \subseteq SectionNames \cup templates
  /\ promptStage \in {"embedded", "built", "unusable", "loaded", "rendering", "rendered"}
  /\ agent \in Roles \cup {""} /\ given \subseteq Names
  /\ DOMAIN base \subseteq Names /\ DOMAIN context \subseteq Names

\* The prompt of an agent is the same whatever order the HashMap gives the
\* sections in: a name is the agent's before it is the caller's before it is a
\* section's, and a section shows the agent's and the caller's values only,
\* nothing for another section; a broken section costs no other its place.  A
\* role answers in any case if some file has it, and then its prompt is of the
\* last such file (new, config, render).
PromptIsWhole ==
  /\ promptStage \in {"loaded", "rendering", "rendered"} =>
       \A i \in DOMAIN agentFiles : agentFiles[i].kind = "entry" =>
         /\ agentFiles[i].role \in DOMAIN library
         /\ library[agentFiles[i].role] >= i
  /\ promptStage = "rendered" /\ "agent" \in templates =>
       /\ DOMAIN context = Fields \cup given \cup DOMAIN promptSections
       /\ \A n \in DOMAIN context :
            CASE n \in Fields -> context[n] = OfAgent(agent)
              [] n \in given \ Fields -> context[n] = OfCaller
              [] n \in broken \ (Fields \cup given) -> context[n] = Raw
              [] OTHER -> context[n].shows =
                   [m \in promptSections[n] |-> CASE m \in Fields -> "agent"
                                            [] m \in given \ Fields -> "caller"
                                            [] OTHER -> "nothing"]

=============================================================================
