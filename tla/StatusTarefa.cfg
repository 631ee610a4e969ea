SPECIFICATION FairSpec
CONSTANTS
  o1 = o1
  e1 = e1
  e2 = e2
  i1 = i1
  OSs = {o1}
  Importacoes = {i1}
  Entregas = {e1}
  MaxData = 2
  Falhas = {"servidor", "perda"}
INVARIANTS TypeOK ResultadoDoTecnico
PROPERTIES NaoOkPermanece ResultadoConverge ListadaSeEncerra
