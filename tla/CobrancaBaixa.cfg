SPECIFICATION FairSpec
CONSTANTS
  l1 = l1
  pix = pix
  boleto = boleto
  e1 = e1
  e2 = e2
  w1 = w1
  w2 = w2
  c1 = c1
  Recebiveis = {l1}
  Tipos = {pix}
  Emissores = {e1}
  Webhooks = {w1}
  Reconciliadores = {c1}
  MaxPagamentos = 1
  Falhas = {"mp", "resposta", "aviso"}
PROPERTIES PagoDaBaixa
