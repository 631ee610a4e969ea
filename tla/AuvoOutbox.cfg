SPECIFICATION FairSpec
CONSTANTS
  r1 = r1
  r2 = r2
  d1 = d1
  d2 = d2
  Linhas = {r1, r2}
  Drenos = {d1, d2}
  Descritor <- MCClienteSegmento
  TamLote = 2
  MaxEscritas = 3
  Falhas = {"leitura", "auvo", "resposta", "aplicar", "gravar", "queda"}
INVARIANTS TypeOK ReservaExclusiva EnvioEntregue VinculoCorreto
PROPERTIES SemEco FilaSpec SemDuplicataSilenciosa ConvergeSozinha TodaEscritaTermina
