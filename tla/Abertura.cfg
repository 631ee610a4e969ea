SPECIFICATION FairSpec
CONSTANTS
  o1 = o1
  o2 = o2
  a1 = a1
  a2 = a2
  e1 = e1
  externa = externa
  SemOS = externa
  OSs = {o1}
  Aberturas = {a1, a2}
  Entradas = {e1}
  MaxTasks = 2
  Falhas = {"banco", "cadastro", "busca", "auvo", "resposta", "queda"}
INVARIANTS TypeOK AberturaExclusiva TaskUnica VinculoDaTask
PROPERTIES PorFimAberta
CHECK_DEADLOCK FALSE
