CONSTANTS
    Propostas = {p1, p2}
    Sessoes = {s1, s2}
    Execucoes = {cron, botao}
    Meses = {1}
    PrecoMaximo = 1
    Piso = 1
    Valores = {1}
    MaxSalvos = 2
    MaxForcos = 1
    MaxContratos = 1
    EtapasAtivas = {"ganha"}
    Nenhum = Nenhum
SPECIFICATION Spec
SYMMETRY Simetria
INVARIANTS TypeOK HistoricoCompleto DecisaoPrevalece UmPlanoPorContrato RecebivelUnico
