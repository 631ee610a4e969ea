SPECIFICATION Spec
CONSTANTS
  p1 = p1
  v1 = v1
  v2 = v2
  n1 = n1
  n2 = n2
  a1 = a1
  e1 = e1
  externa = externa
  SemVisita = SemVisita
  Ocorrencias = {p1}
  Visitas = {v1, v2}
  Envios = {n1, n2}
  SemOS = externa
  Aberturas = {a1}
  Entradas = {e1}
  MaxTasks = 2
  Falhas = {"recusa"}
SYMMETRY Simetria
INVARIANTS NuncaSegundaTask
CHECK_DEADLOCK FALSE
