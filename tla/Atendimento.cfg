CONSTANTS
    Execucoes = {e1, e2}
    Itens = 1
    Janela = 1
    MaxMensagens = 2
    MaxPropostas = 1
    MaxQuedas = 1
SPECIFICATION SpecJusta
INVARIANTS TypeOK NenhumaEsquecida
PROPERTY FilaTermina
CHECK_DEADLOCK FALSE
