SPECIFICATION Spec
CONSTANTS
  u1 = u1
  u2 = u2
  t1 = t1
  t2 = t2
  f1 = f1
  e1 = e1
  r1 = r1
  r2 = r2
  s1 = s1
  s2 = s2
  Nenhum = Nenhum
  Unidades = {u1, u2}
  Tipos = {t1, t2}
  TipoDe <- MCTipoDe
  Funcionarios = {f1}
  Composicoes <- MCComposicoes
  Eventos = {e1}
  Reservas = {r1, r2}
  Periodos <- MCPeriodos
  Sessoes = {s1, s2}
  MaxMov = 3
SYMMETRY Simetria
INVARIANTS TypeOK CadeiaDePosse EfetivadaTemEntrega
PROPERTIES CustodiaSpec
