# Sinérgica SO in TLA+

Sinérgica SO is the operating system of a building-maintenance company: a React
application over a Supabase database (Postgres, 200-odd migrations under
`src/supabase/migrations/`) and some forty Edge Functions
(`src/supabase/functions/`) that keep it in step with two outside systems, the
**Auvo** (the field-service application technicians use) and **Mercado Pago**
(payments). There is no long-running server. State lives in Postgres rows and in
the outside systems; an Edge Function is a short-lived isolate that reads rows,
awaits HTTP calls and writes rows back, with no transaction across its awaits,
and several instances of it run at once (a cron, a user's click, a webhook that
is delivered again). That is where this code is hard, and that is what the
modules here describe: **every await of a function is a step**, and between two
steps anything else may happen.

The names of migrations are shortened to their number below: 0024 is
`src/supabase/migrations/0024_*.sql`.

## 1. Inventory

| Component | State it keeps | Operations | Talks to | What is hard | What makes it correct |
|---|---|---|---|---|---|
| **Auvo outbox** (0024, 0025, 0051, `pcm-auvo-push`, `_shared/auvo/registry`) | `pcm.auvo_sync_outbox`; `auvo_id` of the synchronised rows | trigger `fn_auvo_enqueue`, `fn_claim_auvo_outbox_batch`, the drain loop, `fn_apply_auvo_sync` | every synchronised table (trigger), the Auvo's REST API | two drains at once, lost answers, an isolate that dies after reserving, order inside a batch | a row is in one pair of hands; `sent` is true; the link names the right record; no echo; no second record of a row in silence; what was sent converges |
| **Charging a receivable** (`financeiro-cobranca-emitir`, `-webhook`, `-reconciliar`, 0122) | `financeiro.cobrancas`, `cobrancas_eventos` | emit, treat a notification, poll | Mercado Pago; `lancamentos` | notifications lost, repeated and overtaken; webhook against poll; errors ignored; idempotency keys | one payment per receivable and kind; one application per change; never ahead of the payment; paid means settled |
| **Receivables, bank reconciliation, closing** (0106, 0124, the `financeiro` adapter) | `financeiro.lancamentos`, statement lines, closed months | edit, settle, undo, match, unmatch, close, reopen | the charges above | users write by id over rows that moved | the receivable moves for a reason only |
| **Opening an OS in the Auvo** (`pcm-auvo-open-task`, `pcm-auvo-create-task`, 0169) | `auvo_task_id`, `auvo_sync_status` of an OS (work order) | reserve, search, create, link, mark failed | the Auvo; the inbound webhook and import | double clicks, lost answers, an expiring reservation, adoption by the webhook | at most one opening, one task per OS, a link that is right and stable, no OS shut out |
| **Status and result of a task** (`pcm-auvo-webhook`, `pcm-auvo-tasks-import`, `pcm-auvo-deleted-tasks-sync`, `_shared/preventivas/resultado.ts`, 0228, 0077, 0105) | status of an OS, result of an occurrence, status of a PMOC visit | treat an event, import results, cancel the OSs of deleted tasks, mark overdue visits | the Auvo; users | events lost, repeated, late; stale pages of the import | the technician's result is recorded and converges |
| Auvo pull (`pcm-auvo-pull`, 0026, 0069, `webhook-dispatch.ts`) | rows upserted by `auvo_id` or adopted by `externalId` | page through a resource, upsert | the Auvo; races the outbox on the same rows | an upsert over a row whose write is still queued | no local write is lost, no row twice |
| **Preventive plans** (0224, `pcm-preventivas-confirmar`, `-enviar-backlog`, `confirmacao.ts`) | occurrences, their OSs | reserve an occurrence, POST a task, verify it, classify the failure | the Auvo; every other opening of the same OS | POST without a search before it; retries; two writes at once; an operator on the same OS | what is offered was confirmed; an uncertain creation is not repeated |
| **Tools** (0086, 0087, 0089, the tool adapters) | units, movements, kits, reservations | hand out, return, write off, kits as transactions, reserve, effect, cancel | users | a kit's long transaction against single movements; a reservation in several requests | one chain of custody; a whole kit or none; an effected reservation was handed over |
| **Recurring entries** (0113) and dunning (0117, 0121, `financeiro-regua-cobranca-disparo`) | projected receivables; sends | monthly generation by cron and button; hourly e-mails | contracts; e-mail | the cron and the button together, or dying half-way | one receivable per plan and month |
| **Commercial** (0182, 0183, 0184, 0189, 0190, 0193) | proposals, versions, decisions, contracts, plans | edit, publish, force a price, decide, contract, activate, edit and close a contract | users, the portal, the financial module | two editors; a decision against an edit; a trigger on every update | no save lost; the decision stands; one plan per contract |
| **Conversations** (`pcm-whatsapp-webhook`, `pcm-ze-agent`, `atendimento-whatsapp-envio`, 0149) | messages, `wa_queue`, pending proposal, mode | receive, debounce, claim, propose, confirm, force, pause | WhatsApp, a language model, people of the office | a message while the row is processed; forced runs by id alone; failures after the claim | no message forgotten; every row ends |
| Life of calls and OSs (0134, 0151, 0171, 0178, the `pcm` adapters) | `chamados`, `ordens_servico` | open, prioritise, convert, batch status | every Auvo function | two tables written in two statements | a call and its OS agree |
| PMOC, inspections, assessments (0023, 0077, `pmoc-generate-pdf`) | plans, schedules, records | schedule, record, print | status of a task | the visit recorded twice or never | one record per visit |
| Customer portal (0143, 0144) | tokens, quotes, notifications | approve, notify | calls, commercial | | |
| Users, roles and row-level security (0006, 0008, `config-gerenciar-usuario`) | roles | stateless predicates | all | | |
| Web applications and UI packages | none of their own | present and edit | the adapters above | | |
| Other catalogue copies (`pcm-auvo-customers-import`, `-gps-pull`, `-support-pull`, `-sync-all`) | mirror tables | copy all | the Auvo | | |
| `.triviaiox-core`, `.agents`, `.codex`, `.specify`, `specs`, `docs` | none at run time | a vendored development framework and the stories | | | |

The components interact in three places, and these are where the models meet.
Every synchronised table is written by users, by the drain (through
`fn_apply_auvo_sync`, under a transaction-local GUC that silences the trigger)
and by the pull. An OS is written by its opening, by the webhook, by the import,
by the reconciliation of deleted tasks and by users. A receivable is written by
users, by the webhook and poll of Mercado Pago and by the month's closing. A
fourth is the OS of a preventive occurrence: `PreventivaEnvio` instantiates
`AberturaAuvo` on it, so that every opening and adoption interleaves with a
confirmation.

## 2. Modules

| Module | Models | Lines of code it stands for |
|---|---|---|
| `FilaEntrega` | abstract: what a work queue promises, through its status column alone | |
| `AuvoOutbox` | the write path PCM → Auvo | 0024, 0025, `pcm-auvo-push/index.ts`, `registry/` |
| `Cobranca` | emission, webhook, reconciliation, and the writers of a receivable | the three functions, `mercadopago/client.ts`, 0122, 0124, the finance adapter |
| `AberturaAuvo` | opening an OS in the Auvo | `pcm-auvo-open-task`, `pcm-auvo-create-task`, 0169, parts of the webhook and import |
| `StatusTarefa` | what happens to an OS while its task is worked on | webhook, import, `resultado.ts`, 0228, 0077, deleted tasks |
| `PreventivaEnvio` | confirming a preventive occurrence, composed with `AberturaAuvo` on its OS | `pcm-preventivas-confirmar`, `confirmacao.ts`, 0224 |
| `Custodia` | abstract: what the custody of tools promises, in which a kit leaves and comes back in one step | |
| `Ferramentas` | units of tools, kits, reservations | 0086, 0087, 0089, `ferramenta-*.ts`, the adapters |
| `Comercial` | proposals, the client's decision, contracts, plans, recurring receivables | 0182–0184, 0189, 0190, 0193, 0113, the adapters |
| `Atendimento` | a WhatsApp conversation served by the agent Zé | `pcm-whatsapp-webhook`, `pcm-ze-agent`, `atendimento-whatsapp-envio`, 0149 |
| `MC…` | model values and descriptors for TLC | |
| `AuvoOutboxProofs`, `CobrancaProofs`, `AberturaAuvoProofs`, `StatusTarefaProofs`, `PreventivaEnvioProofs`, `FerramentasProofs`, `ComercialProofs`, `AtendimentoProofs` | theorems about the module each is named after | |

Constants are the sets of rows and of concurrent invocations, a bound on the
numbers that grow (`MaxEscritas`, `MaxPagamentos`, `MaxTasks`, `MaxData`) and
`Falhas`, the set of faults the environment may inject: a run with
`Falhas = {}` shows what the code does when nothing goes wrong, and a theorem
holds for every subset. The mutants of an operator are written beside it; nothing
but the mutation of a run uses them.

### AuvoOutbox

`origem` is a row of a synchronised table (absent, live, soft-deleted,
physically deleted; its content as the number of the write that made it; its
`auvo_id`). `outbox` is the table in commit order. `auvo` is the sequence of
records the Auvo ever created. A drain goes `ocioso → laco → chamar → aplicar →
gravar → laco`; `atual`, `lida`, `idAuvo` and `ok` are the locals of one
iteration of `processOutboxRow`, dropped at its end. `Reivindicar` is the single
statement of the claim; `ProcessarLinha` is the read of the origin row and the
decision; `ChamarAuvo` the HTTP request (`Post`, `Patch`, `Desativar`);
`AplicarSync` the RPC; `GravarResultado` the update of the outbox row. Whether a
POST with a known `externalId` meets the old record is a field of the descriptor,
since it differs between the resources (ADR-0001, and the registry's own comments).

### Cobranca

`mp` are Mercado Pago's payments and `cobr` the rows of `financeiro.cobrancas`
by `external_id`. An emission goes `verificar → criar → inserir`, a webhook or
poll `consultar → registrar → atualizar → baixar`. Most statements of these
functions ignore the `error` supabase-js returns, so a failed statement is one
that changes nothing while the handler goes on; where the code does look at the
error, the action ends the handler. `Aceita` is what the database allows on a
receivable whoever writes it: the month is open (0124) and a forecast entry has a
due date (0106).

### AberturaAuvo

`os` holds `auvo_sync_status` and `auvo_task_id`; `vencida` says that the row was
last updated more than five minutes ago, which is all `fn_iniciar_abertura_auvo`
looks at. An opening goes `reservar → ler → buscar → criar → gravar` or to
`falhar` (markFailed). `Entradas` are webhook and import: each looks which tasks
are known and inserts the others in one statement.

`Vencer` is enabled only when no live opening is past the reservation. This is the
one assumption about time: the platform ends a function after 150 s
(`pcm-auvo-tasks-import/index.ts:226-228`), five minutes is longer than both
functions together. It is what the reservation's expiry rests on; without it
`AberturaExclusiva` is false.

### StatusTarefa

`tarefa` is what the technician did, `avisos` the events not yet delivered, `ocor`
the result of the occurrence with the date it was recorded for, `ent` the
deliveries under way and `imp` the page each import has read and not written yet.
An answer has a date later than those before; the check-out has a date as well,
which counts if it is later. The reconciliation of deleted tasks is a run of its own
(`sinc`): `ListarExcluidas` reads the pages of a window, the last 14 days unless its
caller asks for another (deleted-tasks-sync:19-21), hence any part of the deletions;
`CancelarListadas` is the RPC of 0077, `SincronizacaoFalha` its error. Its one caller is
`pcm-auvo-sync-all` (101), which its one caller, a button, starts: no cron does.

### PreventivaEnvio

`Abertura == INSTANCE AberturaAuvo` shares its variables: an operator's opening
(`Clicar`, `Abrir`), the expiry of its reservation, an edit and the adoptions of
webhook and import are its actions, taken beside the confirmation. `oc` is the
occurrence (`envio_estado`, `auvo_task_id`, `visita_em`), `inseridas` the ones whose
OS exists, `origem` says of each task of the Auvo whether a confirmation created it,
which visit the Auvo confirmed in it and whether a call about it was refused with 4xx.
A confirmation goes `tomar → preparar → postar → verificar → gravar`, where the two
writes of the `Promise.all` happen in either order, or to `falhar → vincular` (the
catch, whose two updates ignore their errors).

### Ferramentas

`unidade` is the row of a unit and `mov` its ledger. A movement of one unit is a
statement whose trigger takes the row's lock: one step, which waits for `Travadas`,
the rows that kit transactions hold. `fn_atribuir_kit` is `AtribuirKit` (the cursor
opens on the composition), `PegarItem` per item (`for update skip locked`) and
`KitAtribuido` (commit) or `Desfazer` (any exception); `fn_devolver_kit` likewise.
The edition of a kit is two requests. A reservation is checked against what is
committed (`Reservar`) and visible later (`InserirReserva`), as the trigger reads
without a lock. Effecting one is the hand-over, then an update by id alone. That its
unit is of the reserved tool is a filter of the page (`UnidadesOferecidas`,
FerramentasPage.tsx:496-498), not of the validation.

Seen from outside, all this is `Custodia`: units that are in, out or written off, kits
asked for, handed out and returned each in one step, and nothing of a transaction that
has not committed. The mapping reads a request from the kit functions that are running
(`Pedidos`: the composition each found at its start) and a hand-over from the ledger
(`Saidas`: the units with a hand-over under the event). That the functions are atomic
and a kit is never left halfway is what `CustodiaSpec` states, not what the model
assumes: between the first item and the commit, other users move the units it has not
locked and rewrite the composition.

### Comercial

One opportunity with its proposals. `Atualizar` is an UPDATE under both triggers of
0183. `fn_salvar_composicao_proposta` is three steps, since it reads the status
without a lock: `LerParaSalvar`, `ApagarItens`, `SalvarComposicao`; from its first
inserted item on it holds a key-share lock on the proposal, which the `for update` of
`DecidirProposta` waits for. The items a save writes are named by the version it
makes, so a save whose delete did not see another's items leaves both. The other
functions lock the row they decide on and are one step. `fn_gerar_recorrencias` is
its select and its insert. `EditarContrato` is the adapter's `editarContrato`
(supabase-contrato-adapter.ts:89-109), which writes type and value by id alone whatever
the status of the contract, as 0190 lets it: `contrato-gateway.ts:28-32` means it for
drafts, nothing enforces that, and no page calls it at this commit. So a contract that
was activated as recurring may be named a single job later. Its plan then goes on, which
is why `UmPlanoPorContrato` speaks of the plan a contract names and not of its type.

### Atendimento

One conversation, that has a customer and is routed to the calls agent. A message is
what `interpretarConfirmacao` tells apart (`sim`, `nao`, any other text). A run reads the
last `Janela` messages (`Recentes`; 20 in `pcm-ze-agent/index.ts:643`) and `lidas` are
those some run has read. `fila` holds
the rows of `wa_queue` in order. A run of the agent goes `reservada → leu → avaliar →
propor/finalizar`, or `criar` and `recusar` when a proposal is pending; a forced run
claims the last row by id alone, whatever its status. Any await may throw (`Falhar`,
the catch writes `error`) and a function may be killed (`Cair`). Two bounds are named
in the guards: one forced run at a time, and one run at a time between its extraction
and its saving of a proposal.

## 3. Runs

Deadlock is checked except in the runs of the opening, the preventive and the
conversation: there the system really stops, once each OS has its task, the Auvo's
bound or the bound of messages is reached and every function has ended.

| Run | Instance | Distinct states | What it shows |
|---|---|---|---|
| `auvo_outbox` | 2 rows (a customer, a segment), 2 drains, batch of 2, 3 writes, all faults, fair | 202,809 | types, exclusive reservation, `sent` is true, right links, no echo, and the outbox implements `FilaEntrega`; a second record of a row has a race or an entry that did not end well behind it; a row no two drains process at once converges; every write is closed or orphaned |
| `cobranca_falhas` | 1 receivable, 1 kind, 2 emissions, webhook and poll, 2 payments, all faults | 927,972 | one payment per key, one application per change, never ahead, moves justified |
| `cobranca_baixa` | 1 emission, webhook, poll, notifications lost, fair | 32,022 | an approved payment settles its receivable |
| `cobranca_pendente` | the same as `cobranca_baixa`, no fault | violated | the charge of an approved payment can stay `pendente` for ever |
| `abertura` | 1 OS, 2 openings, 1 webhook/import, 2 tasks, all faults, fair | 4,024 | exclusive reservation, one task, the right link, nobody shut out |
| `preventiva_envio` | 1 occurrence, 2 confirmations with 2 visits, 1 opening, 1 webhook/import, 2 tasks, all faults | 595,205 | what is offered as available was confirmed by the Auvo; an uncertain creation is not repeated |
| `preventiva_envio_recusa` | the same, the only fault a 4xx | violated | a 4xx after the task was created lets a retry create a second one |
| `status_tarefa` | 1 OS of either origin, 1 delivery, 1 import, dates 0..2, all faults, fair | 120,644 | the technician's result, kept and converging; the OS of a deletion that was listed closes |
| `ferramentas` | 2 units of 2 tools, a kit of one each, 2 reservations, 2 sessions, 3 movements a unit | 1,068,698 | custody is one chain; an effected reservation has its hand-over; the module implements `Custodia`: a kit leaves whole or not at all |
| `comercial` | 2 proposals, 2 editors, 2 saves, 1 override, 1 contract, cron and button | 1,488,402 | no save lost, the decision stands, one plan per contract, one receivable per plan and month |
| `comercial_forcada` | 1 proposal, 2 saves, 1 override, fair | violated | a proposal published below its floor can never be answered |
| `atendimento` | 1 conversation, 2 runs of the agent that read 1 message each, 2 messages, 1 proposal of 1 item, 1 kill, fair | 964,120 | no message swallowed by the debounce; every row of the queue ends |

*Bounds.* Rows of different entities do not interact except through the batch, so
two rows, one of each family, with three writes give every pair of operations on
one row together with a foreign row in the batch; three writes are also the
smallest number that lets a row be created, changed and excluded. Two concurrent
invocations are enough for each race the code can lose: every guard is a test of
one row and every statement writes one row, so a third actor only repeats what the
second did. Two payments (of two kinds, or with the key ignored) and two tasks are
what a duplicate takes. The dates 0..2 give an import older than, as old as and
newer than the webhook's record. Two confirmations with a visit each are what makes a
task carry the wrong visit; two sessions, one in a kit and one outside it, what makes a
custody break. Two saves, with two editors, are the smallest number one of which can be
lost, and one contract among two proposals leaves one without. `Valores` are the values the
form of a contract is given, one above nought: a contract is without a value until it is
edited, and an edit may leave the value as it is. Two messages
give the one being processed and the one that arrives meanwhile; two rows of the queue are
then the most there can be, and a window of one message is the smallest that leaves one
out of a reading. The theorems of section 5 need none of these
bounds.

*Fairness.* Users, technicians, payers and the Auvo's deletions are never fair. A
function that started runs on until it ends or dies (weak fairness of its steps).
The drain is called by a cron each minute (0025:64-70) and by every write (0051:59-77),
so two drains at work are the ordinary case in all the runs of the outbox. The poll of charges is called each
hour (0122:114-118), the import each hour (0084:36-48), over the tasks scheduled
in the last 21 days (`pcm-auvo-tasks-import/index.ts:36-42`): a task is read again
as long as the import does not fail throughout its window. The event of a task is
delivered until it is answered 200 or lost for good (strong fairness of `Receber`).
A claim that some service answers *in the end* is strong fairness of the step that
succeeds, and only where a property needs it: Mercado Pago answers a poll and a poll gets
to each charge it lists and to its event in the end, since the next one lists again
(strong fairness of `Escolher`, `Consultar`, `RegistrarEvento`), which makes the
refutation of the charge stronger; a retry of an opening gets through. The operator who opens an OS clicks again as long as it
has no task, and at last leaves it unedited (each edit renews `updated_at`, hence
the reservation). Deleted tasks are reconciled when somebody presses "Sincronizar
Auvo" (`pcm-auvo-sync-all/index.ts:86-119`): a reconciliation that was started runs on
(weak fairness of `CancelarListadas`), but nobody has to press.
The agent is called by a cron each minute, which lists the pending rows again and
again whichever invocation serves it (strong fairness of `Agendado`); a run goes on to
its end or fails (weak fairness of `Passo`). `SpecDecide` adds an assumption about a
person, that the client answers a published proposal: the counterexample is that the
answer is not enough.

## 4. Findings

1. `cobranca_pendente`: the poll says it revisits every charge still `pendente` and
   synchronises it. A webhook that read the payment as pending, late, writes `pendente`
   over the `pago` of the reconciliation; the event `pago` exists, so the poll skips the
   charge from then on, though its payment stays approved.
2. `preventiva_envio_recusa`: only a failure before the remote effect is said to be
   repeatable. A 4xx of the PATCH or GET after the POST counts as one (confirmar:326-331),
   and the occurrence is free before its OS is told of the task: a second confirmation
   creates another.
3. `comercial_forcada`: a superadmin may force a price below the floor, yet the floor
   trigger runs on every update (0183:34-37) and its exemption is local to the
   forcing transaction. The client's decision, the status buttons and the duplication
   of such a proposal are all refused. With `MaxForcos = 0` the property holds.

Each quotes its sentence in `PROJECT.json`, and `hazards` there lists, at their
lines, the places where the code can go wrong, with the properties that watch them.

Other behaviour worth knowing, met while modelling. In each case the models contain
it, and the properties are stated so as to admit it:

- A row of the outbox in `error` is never offered again: the claim (0024:111-119)
  takes `pending` only, though 0051:6-8 calls the cron the safety net that retries it.
  A row left in `processing` by a dead drain is never reclaimed either (`Orfa`).
- The webhook and the import adopt the task of an OS that is being opened (they take
  it for one created in the Auvo, webhook:222); `auvo_task_id` being unique, that OS
  can then never be linked.
- A webhook that dies after it recorded the event of a payment and before it wrote the
  charge and the receivable (97-120) is made up for by nobody, although 136-137 calls the
  poll its safety net: every later notification and poll finds the event recorded.
- Two quick edits of a row, each with the drain its write starts (0051:59-77), may both
  read a null `auvo_id` and both POST. Entities whose `externalId` the Auvo does not take
  (segments, say) then have two records there, with no error row, although
  `specs/E01-S36-write-path-instantaneo-auvo/spec.md:53` says that cannot happen.
  `SemDuplicataSilenciosa` names this race among the ways to a second record.
- The reconciliation of deleted tasks has no cron, although `specs/E01-S58-…/spec.md:15` and
  the message of sync-all:145 speak of one, and lists the deletions of the last 14 days. A
  deletion whose event is lost and that no press of the button lists in time leaves its OS
  open for ever; `ListadaSeEncerra` is about those that were listed.
- A late `em_execucao` event moves a finished OS back: `status <> Y` compares with the
  target only (webhook:258), whatever `specs/E01-S10-…/tasks.md:107-111` says.
- Of a row that two drains process at the same time, the older content may be the last
  the Auvo takes: nothing orders their requests. `ConvergeSozinha` is about rows that are
  not disputed.
- A contract edited after its activation keeps the plan it has, at its old value.
- The record of a PMOC visit is inserted without `created_by`, which is `not null`
  (0023:130): the visit is never recorded.
- The error of `maybeSingle` in the emission is ignored, so a failing query (or two
  active charges) reads as "no active charge" and only the idempotency key is left; two
  emissions of different kinds at once, or a late `pendente` over a cancelled charge,
  make two active charges.
- Two overlapping reservations of a unit both commit when their transactions overlap
  (0087:85 reads without a lock); custody is still protected, by 0086:139.
- Two editors that save one proposal at once leave both sets of items in
  `proposta_itens`; the versions are right.
- A confirmation of a pending proposal opens its calls before it clears it, so two
  rows with a "sim", a forced run or a retry open them again, against the comment at
  `pcm-ze-agent/index.ts:669`. A webhook that dies before enqueuing leaves a message
  its redelivery does not rescue.

## 5. Theorems

TLC checks small instances; the theorems hold for every value of the constants
under the assumptions the modules name: `Descritor` gives each row a descriptor,
`TamLote` and `Itens` are positive, the other bounds are numbers, the faults are among
those listed, `SemOS` is no OS, no function is both a webhook and a poll, each unit has
a tool, a kit asks for a number of each, and the null of `Comercial` and `Ferramentas`
is none of their rows, users or events. For the types of `Comercial`, whose version
numbers are bounded by counting, the proposals are finite and no session is written
like a version of one (`ContaveisAssumption`). Every invariant and every action
property a passing run checks is stated by a theorem. Each inductive invariant was
first checked as an invariant of a run.

No theorem bounds the number of drains, of editors or of runs. `LinhaSozinhaConverge` is
about a row that no two drains ever process at the same moment (`[]Sozinha(r)`), which is
a condition on that row alone: others may be processing other rows, hold entries of this
one in their batches, fail and die. Without it the statement is false, since the requests
of two drains for one row may cross. `NuncaDuplicaEmSilencio` has no condition: it says
which ways to a second record there are, the race of two drains among them (section 4).

| Module | Theorem | Property | For every value of the constants |
|---|---|---|---|
| `AuvoOutboxProofs` | `TipoCorreto` | `TypeOK` | every variable keeps its type |
| | `ReservaSegura` | `ReservaExclusiva` | no two drains hold a row, a held row is not offered |
| | `EnviadoFoiEntregue` | `EnvioEntregue` | a `sent` row was accepted by an Auvo record of its origin row |
| | `VinculoSempreCorreto` | `VinculoCorreto` | `auvo_id` names a record of that row |
| | `NuncaEco` | `SemEco` | only users add to the outbox |
| | `ImplementaFila` | `FilaSpec` | the outbox implements `FilaEntrega` |
| | `LinhaSozinhaConverge` | `ConvergeSozinha` | a row no two drains process at once is in the Auvo as it is here whenever all its entries were sent |
| | `NuncaDuplicaEmSilencio` | `SemDuplicataSilenciosa` | one more record of a row comes only from a drain that read it before its id was stored, or after an entry that did not end well |
| `CobrancaProofs` | `TipoDaCobranca` | `TypeOK` | |
| | `NuncaPagaDuasVezes` | `PagamentoUnico` | one payment per receivable and kind |
| | `AplicaUmaVez` | `AplicacaoUnica` | one handler per change of status |
| | `NaoSeAdianta` | `NuncaAdiante` | no charge or event ahead of its payment |
| | `SoMovePorMotivo` | `MovimentoJustificado` | only users and money move a receivable |
| `AberturaAuvoProofs` | `TipoDaAbertura` | `TypeOK` | |
| | `ReservaExclui` | `AberturaExclusiva` | one opening past the reservation of an OS |
| | `NuncaDuplica` | `TaskUnica` | no second task, unless a search was refused with 400 |
| | `VinculaASua` | `VinculoDaTask` | an OS is linked to a task of its own |
| | `VinculoNaoMuda` | `VinculoEstavel` | and that link never changes |
| `StatusTarefaProofs` | `TipoDoStatus` | `TypeOK` | |
| | `ResultadoCerto` | `ResultadoDoTecnico` | the result of the last date is the technician's |
| | `NaoOkSoComData` | `NaoOkPermanece` | "não ok" goes only with a later date |
| `PreventivaEnvioProofs` | `TipoDoEnvio` | `TypeOK` | |
| | `OferecidaFoiConfirmada` | `DisponivelConfirmada` | what is offered was read back from the Auvo on the date of its visit |
| | `IncertaUmaTask` | `IncertaNaoRepete` | a creation with an unknown outcome is not repeated |
| `FerramentasProofs` | `TipoDasFerramentas` | `TypeOK` | |
| | `LedgerCoerente` | `CadeiaDePosse` | the ledger is a chain of custody, the row of a unit its last link |
| | `EfetivadaEntregue` | `EfetivadaTemEntrega` | each effected reservation has a hand-over of its own |
| | `ImplementaCustodia` | `CustodiaSpec` | transactions, requests and movements implement `Custodia`: a kit is handed out whole or not at all |
| `ComercialProofs` | `TipoDoComercial` | `TypeOK` | also: version numbers and counters stay within their bounds |
| | `HistoriaDaProposta` | `HistoricoCompleto` | no save of a proposal is lost or shares its number |
| | `DecisaoFinal` | `DecisaoPrevalece` | the client's answer and the contract on it stand |
| | `UmPlano` | `UmPlanoPorContrato` | the plans born of a contract are the one it names, whoever edits it and when |
| | `UmRecebivel` | `RecebivelUnico` | one receivable per plan and month |
| `AtendimentoProofs` | `TipoDoAtendimento` | `TypeOK` | also: the queue never outgrows the messages |
| | `NadaSeEsquece` | `NenhumaEsquecida` | the debounce swallows no message, whatever number of messages a run reads |

`InvarianteIndutivo`, `Invariante`, `InvarianteDaAbertura`, `InvarianteDoEnvio`,
`InvarianteDasFerramentas`, `Inducao` and `InvarianteDoAtendimento` state the inductive
invariants themselves, each `IInv` of its module.

Why the invariants need strengthening, module by module:

- **Outbox.** A claim takes what is `pending`, so exclusivity needs that what a drain
  holds is `processing`, the batch disjoint from the current row and from every other
  drain. Delivery needs what each place of the loop knows: in `aplicar` or `gravar`
  with `ok`, some Auvo record of the row has taken content at least as new as that
  outbox row; the content a drain read is at least as new as the outbox row it
  processes; the id it holds is a record of that row. For the refinement, the claim
  of the module is that of `FilaEntrega` on the status column, and every other step
  either appends, closes a `processing` entry or stutters.
- **Outbox, content.** `ConvergeSozinha` looks at a row once all its entries are sent, so
  the invariant (`Convergindo`) follows the one entry that carries its content: `ver` of a
  row is the number of that entry (`Historia`), once it is sent the Auvo has that
  content, and once the delete is sent the record is inactive (`Espelho`). In between,
  what the drain read of the row differs from it only by writes still `pending` (`Leu`),
  and what it asked of the Auvo is done before the result is stored (`Pediu`). A batch
  may hold the delete and the content of one row and work on them in either order: both
  send what the row is at the time of reading, which is why the order does not matter.
  A step of another drain leaves all this alone as long as it is not about the row
  (`Alheios`, `SoEle`), so the invariant is kept by every step that starts and ends with
  `Sozinha`, and PTL turns that into the implication between the two boxes.
- **Outbox, duplicates.** `Rastro`: each record of a row has its id on the row, or the row
  is gone, or an entry hangs (`Pendurada`: it failed, was abandoned, or its drain is about
  to store the id or the error). An entry stops hanging only by storing an id, so a POST
  for a row that has a record finds one of these.
- **Charge.** `NuncaAdiante` is not inductive: the answer a handler is carrying will
  be written later. `NotasCertas` says of every place a status is held (row, event,
  emission, handler) that the payment had it once; payments only move along
  `Sucessores`, which `Confirma` is closed under. `SoDasInseridas` says handlers
  work on inserted charges, so an update never creates one. That an event is new
  when it is recorded gives `AplicacaoUnica`.
- **Opening.** `Reservada`: as long as an opening is past the reservation, either the
  reservation stands and is young or the OS has its task, so nobody else gets in.
  `SabeDaOS`: what the opening learnt in its search still holds when it creates and
  when it stores. Both rest on `Vencer` (section 2).
- **Result.** `Fotos(o)` are all the readings of a task somebody holds. They are never
  newer than the task, those with one date agree on the answer (`FotosFieis`), and
  where "não ok" is recorded all readings of that date say so (`NaoOkFiel`). Hence
  recording any of them, in any order and any number of times, is harmless. The
  webhook passing `osConcluida = true` whatever it read is covered: it only decides
  between `ok` and `pendente`.
- **Preventive.** What may be taken again has no task but refused ones
  (`RepeteSemDuplicar`), and one confirmation holds an occurrence at a time
  (`Exclusiva`). `Sabe` says what that confirmation knows at each place: before the
  creation every task of the occurrence was refused; after it, every one but its own;
  before it stores `disponivel`, its task was read back with its visit; and it leaves
  `falha`, the only state that lets others repeat, with all refused: what was lost or
  late leaves `incerto`, which nobody takes. A step of another
  function on the same OS never makes a task of a confirmation (`SoEnvio` and the steps
  of `AberturaAuvo`), so what it knows survives it.
- **Tools.** The units a kit function has locked stay as it found them and are its own
  (`Travou`): that is what `FOR UPDATE SKIP LOCKED` and the transaction give. `Montando`
  says that it has, of each item it has been through, exactly as many as asked, and that
  its event is nobody else's; hence it commits a whole kit. A return has in hand only
  units that left under its event (`Devolvendo`), and the ledger only grows, so they
  still have when it commits. For the refinement, a commit is `EntregarKit` or
  `ReceberKit` of all it locked, a start is `PedirKit`, a rollback `NegarKit`, a movement
  of one unit its abstract namesake, and the steps in between stutter: they change
  neither a row nor who asked. For reservations, the
  sessions that have delivered but not marked yet are counted with the effected ones
  (`Conta`): a hand-over adds to one side, the mark moves from one term to the other.
- **Commercial.** Each step is one of five writes of a proposal row (insert, version,
  override, transition, read for a save) and one of four of a contract, and the
  properties are kept by each of these. The edit of a contract keeps its plan and its
  status, which is all the plans' property looks at. The history needs that the version a save
  writes is taken when it writes, so it is new; the decision needs that the table of
  transitions has no way out of an answer, and that a save keeps the status it finds,
  not the one it read. A save under way always has its row, since proposals are never
  deleted. The bounds of saves, overrides and contracts are used for the types alone: a
  version number is bounded because each save under way or done has one of its own
  (`Contaveis`).
- **Conversation.** A row stands for unread messages as long as nobody who has it has
  read (`Espera`): it waits, is about to be read, or ended in error. `Guardada` says that
  every message still to be read, and not pushed out of the window of one that was
  (`Ultrapassada`), has such a row. The point is `Lugar`: a claim takes the
  row out of `pending` and rows never go back, so a run that has read cannot be the one
  a later message relied on when it found a row pending. No row outnumbers the messages
  (`Contagem`), and one run at a time has a proposal to store (`Propondo`).

Only model-checked is liveness (`TodaEscritaTermina`, `PagoDaBaixa`, `PorFimAberta`,
`ResultadoConverge`, `ListadaSeEncerra`, `FilaTermina`): these properties rest on
fairness, and the prover reaches neither fairness nor `ENABLED`.

## 6. Not modelled, and why

Wording, formatting, logging, amounts, QR codes and links: no property is about
them. `auvo_sync_status` of a synchronised row: no step reads it. The enrichment of
the import and the snapshot, assessments and equipment links of the webhook: data
nobody in these modules reads. Row-level security: stateless predicates. The text the
agent writes: out of reach, so the language model is free to ask, propose or fail.

In the partly modelled components: the backlog batch of the preventives (it calls the
same confirmation) and the materialisation of occurrences; the creation of tool units,
the activation of kits and the allocation of a unit to a customer (0156), one statement
on one row each; the expiry of a proposal, the price engine, the leads and the dates of
a contract; the outgoing recurring entries, which repeat the insert of 0113 on another
table, the cash projection and the dunning e-mails; the commercial qualification flow of
the agent and the Meta channel; calls, the board, the plans and inspections of PMOC.

Some 300,000 lines of this repository are `.triviaiox-core` (a vendored development
framework, not part of the running system) and React pages, hooks and components that
present and edit rows through the adapters. They keep no shared state of their own, and
a model of them would say nothing the adapters' models do not. So the share of all lines
the map names is small by nature; the share of the functions and migrations that change
shared state concurrently is what the modules aim at.

## 7. Plan

The order is that of the damage an error does.

1. *(done)* `AuvoOutbox` over the abstract `FilaEntrega`, with its proofs.
2. *(done)* `Cobranca`, with receivables and month as its environment, with its proofs.
3. *(done)* `AberturaAuvo`, with its proofs.
4. *(done)* `StatusTarefa`, with its proofs.
5. *(done)* `PreventivaEnvio`, composed with `AberturaAuvo`, with its proofs.
6. *(done)* `Ferramentas` over the abstract `Custodia`, with its proofs.
7. *(done)* `Comercial`, with recurring receivables, with its proofs.
8. *(done)* `Atendimento`, with its proofs.
9. `AuvoPull`: the upsert by `auvo_id` and the adoption by `externalId` (0026, 0069,
   `webhook-dispatch.ts`), composed with `AuvoOutbox` on the same rows: a local write
   that is still queued against a pull that brings the older content; a deletion
   against its echo.

Theorems to come: abstract specifications that `Cobranca` and `AberturaAuvo` implement (a
payment applied once; an OS opened once), as `AuvoOutbox` implements `FilaEntrega` and
`Ferramentas` implements `Custodia`.
